---- MODULE Spec2Model ----
(***************************************************************************)
(* A model of the IR-signal reconciliation engine of                       *)
(* infrared/decoded-ir-cleaner.py: clean_and_deduplicate (header           *)
(* extraction, record parsing, name normalisation, merge, rebuild), the   *)
(* reads, the write and the report of compare_files, and the walk of       *)
(* analyze_directories over the two directory trees; and of the loop of   *)
(* infrared/decode-irdb-cli.py that decodes the files on the Flipper Zero: *)
(* process_ir_files, decode_ir_file and the commands they send.            *)
(*                                                                         *)
(* Text is modelled at the level of lexemes: a line is a sequence of       *)
(* atoms (words, punctuation marks and the single blank " "); the text of  *)
(* the line is the concatenation of its atoms.  The string primitives the  *)
(* code uses (strip, startswith, lower, the regular expressions) are       *)
(* computed on these sequences.                                            *)
(***************************************************************************)
EXTENDS Integers, Sequences, FiniteSets, TLC

VARIABLES original_content, decoded_content, normalize, file_path,
          pc, initial_content, decoded_content_no_headers, all_signals,
          parsed_signals, unique_signals, entry_index, duplicates_removed,
          buttons_renamed, cleaned_content, comments_readded,
          lost_comments, difference_zero, call_no, first_output,
          original_dir, decoded_dir, mapping, file_limit, file_index,
          results, skipped_files, totals, visited, io_log, returned,
          ir_files, close_apps_frequency, index, decoder_pc, close_command,
          component, attempts, retry_returned, raw_response, last_response,
          processed_count, failed_files, close_log, return_log

\* The state of analyze_directories: the two directory trees, its
\* arguments, its loop position and its accumulators; visited and io_log
\* record, per file of the walk, the call of compare_files and the reads and
\* writes of the files.
driver == <<original_dir, decoded_dir, mapping, file_limit, file_index,
            results, skipped_files, totals, visited, io_log, returned>>

\* The state of FlipperIRDecoder.process_ir_files (decode-irdb-cli.py): its
\* argument and the frequency, the loop position, the position inside
\* close_running_apps and create_directory, the responses of the calls of
\* send_command made by the current call of send_command_with_retry and what
\* that call returned, the text last read from the device and what
\* send_command made of it, the two counters of the decoder; close_log
\* records the files before which close_running_apps was called, return_log
\* the values returned by decode_ir_file.
decoder == <<ir_files, close_apps_frequency, index, decoder_pc, close_command,
             component, attempts, retry_returned, raw_response, last_response,
             processed_count, failed_files, close_log, return_log>>

vars == <<original_content, decoded_content, normalize, file_path,
          pc, initial_content, decoded_content_no_headers, all_signals,
          parsed_signals, unique_signals, entry_index, duplicates_removed,
          buttons_renamed, cleaned_content, comments_readded,
          lost_comments, difference_zero, call_no, first_output,
          original_dir, decoded_dir, mapping, file_limit, file_index,
          results, skipped_files, totals, visited, io_log, returned,
          ir_files, close_apps_frequency, index, decoder_pc, close_command,
          component, attempts, retry_returned, raw_response, last_response,
          processed_count, failed_files, close_log, return_log>>

(***************************************************************************)
(* String primitives                                                       *)
(***************************************************************************)

\* str.lower() on one atom.
Lower(a) ==
  CASE a = "Name" -> "name"
    [] a = "NAME" -> "name"
    [] a = "OFF" -> "off"
    [] a = "Off" -> "off"
    [] a = "Power" -> "power"
    [] a = "Mute" -> "mute"
    [] a = "MUTE" -> "mute"
    [] a = "TVs" -> "tvs"
    [] a = "ACs" -> "acs"
    [] a = "Samsung" -> "samsung"
    [] a = "Vol" -> "vol"
    [] a = "A" -> "a"
    [] a = "LG" -> "lg"
    [] a = "SoundBars" -> "soundbars"
    [] a = "Speakers" -> "speakers"
    [] a = "Audio_Receivers" -> "audio_receivers"
    [] a = "Projectors" -> "projectors"
    [] a = "NEC" -> "nec"
    [] a = "Filetype" -> "filetype"
    [] a = "Version" -> "version"
    [] a = "IR signals file" -> "ir signals file"
    [] a = "Storage error:" -> "storage error:"
    [] OTHER -> a

LowerSeq(s) == [i \in 1..Len(s) |-> Lower(s[i])]

IsSpace(a) == a = " "

RECURSIVE LStrip(_)
LStrip(s) == IF s # <<>> /\ IsSpace(Head(s)) THEN LStrip(Tail(s)) ELSE s

RECURSIVE RStrip(_)
RStrip(s) ==
  IF s # <<>> /\ IsSpace(s[Len(s)]) THEN RStrip(SubSeq(s, 1, Len(s) - 1)) ELSE s

\* str.strip()
Strip(s) == LStrip(RStrip(s))

\* str.startswith(prefix)
StartsWith(s, prefix) ==
  Len(s) >= Len(prefix) /\ SubSeq(s, 1, Len(prefix)) = prefix

HashLine == <<"#">>

\* line.strip().startswith('#')
IsCommentLine(line) == StartsWith(Strip(line), <<"#">>)

\* line.strip() == '#'
IsBareHash(line) == Strip(line) = HashLine

\* The test of lines 132 and 148.
IsHeaderLine(line) ==
  \/ StartsWith(Strip(line), <<"#">>)
  \/ StartsWith(Strip(line), <<"Filetype", ":">>)
  \/ StartsWith(Strip(line), <<"Version", ":">>)

\* re.match(r'^name\s*:\s*(.*)$', line.strip(), re.IGNORECASE): whether it
\* matches, and group(1).
NameMatch(line) ==
  LET s == Strip(line) IN
  IF s # <<>> /\ Lower(Head(s)) = "name"
  THEN LET r == LStrip(Tail(s)) IN
       IF r # <<>> /\ Head(r) = ":"
       THEN [matched |-> TRUE, label |-> LStrip(Tail(r))]
       ELSE [matched |-> FALSE, label |-> <<>>]
  ELSE [matched |-> FALSE, label |-> <<>>]

\* f'name: {name}'
NameLine(name) == <<"name", ":", " ">> \o name

(***************************************************************************)
(* clean_and_deduplicate: header extraction                                *)
(***************************************************************************)

\* The loop of lines 131-135: the leading header and comment lines.
RECURSIVE LeadingHeader(_)
LeadingHeader(content) ==
  IF content # <<>> /\ IsHeaderLine(Head(content))
  THEN <<Head(content)>> \o LeadingHeader(Tail(content))
  ELSE <<>>

\* The loop of lines 138-139.
RECURSIVE PopTrailingHash(_)
PopTrailingHash(s) ==
  IF s # <<>> /\ IsBareHash(s[Len(s)])
  THEN PopTrailingHash(SubSeq(s, 1, Len(s) - 1))
  ELSE s

\* Lines 130-141.
InitialContent(original) ==
  LET popped == PopTrailingHash(LeadingHeader(original)) IN
  IF popped # <<>> /\ ~IsBareHash(popped[Len(popped)])
  THEN Append(popped, HashLine)
  ELSE popped

\* Lines 144-154.
RECURSIVE RemoveDecodedHeaders(_)
RemoveDecodedHeaders(content) ==
  IF content # <<>> /\ IsHeaderLine(Head(content))
  THEN RemoveDecodedHeaders(Tail(content))
  ELSE content

\* A variant of DropFirst that drops one element more.
DropFirstOneMore(s, n) ==
  IF n + 1 >= Len(s) THEN <<>> ELSE SubSeq(s, n + 2, Len(s))

\* original_content[len(initial_content):]
DropFirst(s, n) == IF n >= Len(s) THEN <<>> ELSE SubSeq(s, n + 1, Len(s))

(***************************************************************************)
(* clean_and_deduplicate: collecting the signals                           *)
(***************************************************************************)

Signal(name, comments, signal, source) ==
  [name |-> name, comments |-> comments, signal |-> signal, source |-> source]

\* The scanner state at the start of one source (lines 163-165).
ScanStart ==
  [current_signal |-> <<>>, current_comments |-> <<>>,
   current_signal_name |-> <<>>, collected |-> <<>>]

\* One iteration of the loop of lines 166-202.
ScanLine(st, line, source) ==
  LET m == NameMatch(line)
      pending == st.current_signal # <<>> /\ st.current_signal_name # <<>>
      flushed == Append(st.collected,
                        Signal(Strip(st.current_signal_name),
                               st.current_comments, st.current_signal, source))
  IN
  IF m.matched
  THEN IF pending
       THEN [current_signal |-> <<line>>, current_comments |-> <<>>,
             current_signal_name |-> Strip(m.label), collected |-> flushed]
       ELSE [st EXCEPT !.current_signal = Append(@, line),
                       !.current_signal_name = Strip(m.label)]
  ELSE IF IsCommentLine(line)
  THEN IF pending
       THEN [current_signal |-> <<>>,
             current_comments |-> Append(st.current_comments, line),
             current_signal_name |-> <<>>, collected |-> flushed]
       ELSE [st EXCEPT !.current_comments = Append(@, line)]
  ELSE IF Strip(line) = <<>>
  THEN st
  ELSE [st EXCEPT !.current_signal = Append(@, line)]

RECURSIVE ScanLines(_, _, _)
ScanLines(st, content, source) ==
  IF content = <<>> THEN st
  ELSE ScanLines(ScanLine(st, Head(content), source), Tail(content), source)

\* Lines 163-211 for one source: the loop over content + ['#'] and the final
\* flush.
SignalsOf(content, source) ==
  LET st == ScanLines(ScanStart, Append(content, HashLine), source) IN
  IF st.current_signal # <<>> /\ st.current_signal_name # <<>>
  THEN Append(st.collected,
              Signal(Strip(st.current_signal_name), st.current_comments,
                     st.current_signal, source))
  ELSE st.collected

\* A variant of CollectSignals that scans the original source first.
CollectSignalsOriginalFirst(original, initial, decoded_no_headers) ==
  SignalsOf(DropFirst(original, Len(initial)), "original")
    \o SignalsOf(decoded_no_headers, "decoded")

\* Lines 157-211: the decoded source first, then the original source after
\* its first len(initial_content) lines.
CollectSignals(original, initial, decoded_no_headers) ==
  SignalsOf(decoded_no_headers, "decoded")
    \o SignalsOf(DropFirst(original, Len(initial)), "original")

(***************************************************************************)
(* Regular expressions (module re), on atom sequences.  A pattern is a     *)
(* tree of nodes [op, atoms, kids]; matching is case-insensitive           *)
(* (re.IGNORECASE) and anchored at the start of the subject only           *)
(* (Pattern.match).                                                        *)
(***************************************************************************)

RLit(a) == [op |-> "class", atoms |-> {a}, kids |-> <<>>]
RClass(S) == [op |-> "class", atoms |-> S, kids |-> <<>>]
RAny == [op |-> "any", atoms |-> {}, kids |-> <<>>]
RBol == [op |-> "bol", atoms |-> {}, kids |-> <<>>]
REol == [op |-> "eol", atoms |-> {}, kids |-> <<>>]
RCat(kids) == [op |-> "cat", atoms |-> {}, kids |-> kids]
RAlt(kids) == [op |-> "alt", atoms |-> {}, kids |-> kids]
ROpt(r) == [op |-> "opt", atoms |-> {}, kids |-> <<r>>]
RStar(r) == [op |-> "star", atoms |-> {}, kids |-> <<r>>]

\* [_\s]
RSepClass == RClass({"_", " "})

RECURSIVE Ends(_, _, _)
RECURSIVE CatEnds(_, _, _)
RECURSIVE StarEnds(_, _, _, _)

\* The positions at which a match of r that starts at position i of s can
\* end (positions count the atoms consumed, 0..Len(s)).
Ends(r, s, i) ==
  CASE r.op = "class" ->
         IF i < Len(s) /\ Lower(s[i + 1]) \in {Lower(a) : a \in r.atoms}
         THEN {i + 1} ELSE {}
    [] r.op = "any" -> IF i < Len(s) THEN {i + 1} ELSE {}
    [] r.op = "bol" -> IF i = 0 THEN {i} ELSE {}
    [] r.op = "eol" -> IF i = Len(s) THEN {i} ELSE {}
    [] r.op = "cat" -> CatEnds(r.kids, s, {i})
    [] r.op = "alt" ->
         UNION {Ends(r.kids[k], s, i) : k \in 1..Len(r.kids)}
    [] r.op = "opt" -> {i} \cup Ends(r.kids[1], s, i)
    [] r.op = "star" -> StarEnds(r.kids[1], s, {i}, {i})

CatEnds(kids, s, from) ==
  IF kids = <<>> THEN from
  ELSE CatEnds(Tail(kids), s, UNION {Ends(Head(kids), s, i) : i \in from})

StarEnds(r, s, frontier, seen) ==
  LET next == UNION {Ends(r, s, i) : i \in frontier} \ seen IN
  IF next = {} THEN seen ELSE StarEnds(r, s, next, seen \cup next)

\* pattern.match(subject) is not None
ReMatch(r, s) == Ends(r, s, 0) # {}

(***************************************************************************)
(* load_mapping: the rule set                                              *)
(***************************************************************************)

RegexPattern(r) == [kind |-> "regex", re |-> r, text |-> <<>>, group |-> ""]
LiteralPattern(t) == [kind |-> "literal", re |-> RAny, text |-> t, group |-> ""]
GroupPattern(g) == [kind |-> "group", re |-> RAny, text |-> <<>>, group |-> g]

\* ((power|pwr)[_\s]*)?
RPowerPrefix ==
  ROpt(RCat(<<RAlt(<<RLit("power"), RLit("pwr")>>), RStar(RSepClass)>>))

\* ((power|pwr)[_\/\s]*)?
RPowerSlashPrefix ==
  ROpt(RCat(<<RAlt(<<RLit("power"), RLit("pwr")>>),
              RStar(RClass({"_", "/", " "}))>>))

\* (turn[_\s]*)?
RTurnPrefix == ROpt(RCat(<<RLit("turn"), RStar(RSepClass)>>))

\* (on[_\/\s]*off)|(off[_\/\s]*on)
ROnOff ==
  RAlt(<<RCat(<<RLit("on"), RStar(RClass({"_", "/", " "})), RLit("off")>>),
         RCat(<<RLit("off"), RStar(RClass({"_", "/", " "})), RLit("on")>>)>>)

\* vol(ume)?[_\s]*
RVolPrefix == RCat(<<RLit("vol"), ROpt(RLit("ume")), RStar(RSepClass)>>)

\* ch(an(nel)?)?[_\s]*
RChPrefix ==
  RCat(<<RLit("ch"), ROpt(RCat(<<RLit("an"), ROpt(RLit("nel"))>>)),
         RStar(RSepClass)>>)

\* d(o?w)?n
RDown ==
  RCat(<<RLit("d"), ROpt(RCat(<<ROpt(RLit("o")), RLit("w")>>)), RLit("n")>>)

\* mapping['name-check']['$groups'], lines 414-445.
Groups ==
  [g \in {"power-toggle", "power-off", "power-on", "vol_up", "vol_dn",
          "ch_next", "ch_prev", "mute"} |->
    CASE g = "power-toggle" ->
           << RegexPattern(RCat(<<RBol, RPowerPrefix, ROpt(RLit("toggle")),
                                  REol>>)),
              RegexPattern(RCat(<<RBol, RPowerSlashPrefix,
                                  RAlt(<<ROnOff, RLit("toggle")>>), REol>>)),
              RegexPattern(RCat(<<RBol, RTurnPrefix, ROnOff, REol>>)) >>
      [] g = "power-off" ->
           << RegexPattern(RCat(<<RBol, RPowerPrefix, RLit("off"), REol>>)),
              RegexPattern(RCat(<<RBol, RTurnPrefix, RLit("off"), REol>>)) >>
      [] g = "power-on" ->
           << RegexPattern(RCat(<<RBol, RPowerPrefix, RLit("on"), REol>>)),
              RegexPattern(RCat(<<RBol, RTurnPrefix, RLit("on"), REol>>)) >>
      [] g = "vol_up" ->
           << RegexPattern(RCat(<<RBol, RVolPrefix,
                                  RAlt(<<RLit("up"), RClass({"^", "+"})>>),
                                  REol>>)) >>
      [] g = "vol_dn" ->
           << RegexPattern(RCat(<<RBol, RVolPrefix,
                                  RAlt(<<RDown, RClass({"v", "-"})>>),
                                  REol>>)) >>
      [] g = "ch_next" ->
           << RegexPattern(RCat(<<RBol, RChPrefix,
                                  RAlt(<<RLit("up"), RClass({"^", "+"})>>),
                                  REol>>)) >>
      [] g = "ch_prev" ->
           << RegexPattern(RCat(<<RBol, RChPrefix,
                                  RAlt(<<RDown, RClass({"\\v", "-"})>>),
                                  REol>>)) >>
      [] g = "mute" ->
           << LiteralPattern(<<"mute">>), LiteralPattern(<<"mte">>),
              RegexPattern(RCat(<<RBol, RLit("mute"), RStar(RAny), REol>>)) >>]

Button(standard_name, patterns) ==
  [standard_name |-> standard_name, patterns |-> patterns]

Category(category_pattern, buttons) ==
  [category_pattern |-> category_pattern, buttons |-> buttons]

\* A rule set: mapping['name-check'] with its '$groups' and its category
\* tables.
Mapping(groups, categories) == [groups |-> groups, categories |-> categories]

\* mapping=None, the default of clean_and_deduplicate and of compare_files.
NoMapping == Mapping(<<>>, <<>>)

\* The category tables of mapping['name-check'], lines 446-496, in the order
\* of the JSON object; the '$'-keys are the ones line 72 skips.
Categories ==
  << Category(<<"TVs", "/", "*">>,
       << Button(<<"Power">>, <<GroupPattern("power-toggle")>>),
          Button(<<"Off">>, <<GroupPattern("power-off")>>),
          Button(<<"Power_on">>, <<GroupPattern("power-on")>>),
          Button(<<"Vol_up">>, <<GroupPattern("vol_up")>>),
          Button(<<"Vol_dn">>, <<GroupPattern("vol_dn")>>),
          Button(<<"Ch_next">>, <<GroupPattern("ch_next")>>),
          Button(<<"Ch_prev">>, <<GroupPattern("ch_prev")>>),
          Button(<<"Mute">>, <<GroupPattern("mute")>>) >>),
     Category(<<"ACs", "/", "*">>,
       << Button(<<"Off">>, <<GroupPattern("power-off")>>) >>),
     Category(<<"Audio_Receivers", "/", "*", ",", "SoundBars", "/", "*", ",",
                "Speakers", "/", "*">>,
       << Button(<<"Power">>, <<GroupPattern("power-toggle")>>),
          Button(<<"Off">>, <<GroupPattern("power-off")>>),
          Button(<<"Power_on">>, <<GroupPattern("power-on")>>),
          Button(<<"Vol_up">>, <<GroupPattern("vol_up")>>),
          Button(<<"Vol_dn">>, <<GroupPattern("vol_dn")>>),
          Button(<<"Mute">>, <<GroupPattern("mute")>>) >>) >>

(***************************************************************************)
(* normalize_button_names                                                  *)
(***************************************************************************)

\* file_path.replace('\\', '/')
ForwardSlashes(path) ==
  [i \in 1..Len(path) |-> IF path[i] = "\\" THEN "/" ELSE path[i]]

\* Lines 60-66 and 92-96: a '/regex/' string is compiled, any other string
\* is lower-cased.
CompilePattern(pattern) ==
  IF pattern.kind = "regex" THEN pattern
  ELSE LiteralPattern(LowerSeq(pattern.text))

CompileAll(patterns) == [i \in 1..Len(patterns) |-> CompilePattern(patterns[i])]

\* Lines 57-67: group_patterns.
GroupPatterns(groups) == [g \in DOMAIN groups |-> CompileAll(groups[g])]

\* Lines 87-96: the compiled patterns of one button, group references
\* expanded (an unknown group expands to nothing).
RECURSIVE CompileButton(_, _)
CompileButton(patterns, group_patterns) ==
  IF patterns = <<>> THEN <<>>
  ELSE LET p == Head(patterns) IN
       (IF p.kind = "group"
        THEN IF p.group \in DOMAIN group_patterns
             THEN group_patterns[p.group] ELSE <<>>
        ELSE <<CompilePattern(p)>>)
       \o CompileButton(Tail(patterns), group_patterns)

\* category_pattern.split(','), each part stripped (lines 76-78).
RECURSIVE SplitCommas(_, _)
SplitCommas(s, current) ==
  IF s = <<>> THEN <<Strip(current)>>
  ELSE IF Head(s) = ","
       THEN <<Strip(current)>> \o SplitCommas(Tail(s), <<>>)
       ELSE SplitCommas(Tail(s), Append(current, Head(s)))

\* Lines 80-82: '*' becomes '.*', the whole is anchored by ^ and $.
CategoryMatcher(cat_pattern) ==
  RCat(<<RBol>>
       \o [i \in 1..Len(cat_pattern) |->
             IF cat_pattern[i] = "*" THEN RStar(RAny) ELSE RLit(cat_pattern[i])]
       \o <<REol>>)

IndexOfName(cm, standard_name) ==
  IF \E i \in 1..Len(cm) : cm[i].standard_name = standard_name
  THEN CHOOSE i \in 1..Len(cm) : cm[i].standard_name = standard_name
  ELSE 0

\* Lines 86-100: merge the buttons of one matching category pattern.
RECURSIVE MergeButtons(_, _, _)
MergeButtons(cm, buttons, group_patterns) ==
  IF buttons = <<>> THEN cm
  ELSE LET b == Head(buttons)
           compiled == CompileButton(b.patterns, group_patterns)
           at == IndexOfName(cm, b.standard_name)
       IN MergeButtons(
            IF at # 0
            THEN [cm EXCEPT ![at].patterns = @ \o compiled]
            ELSE Append(cm, Button(b.standard_name, compiled)),
            Tail(buttons), group_patterns)

\* Lines 77-100 for the alternatives of one category key.
RECURSIVE MergeCategoryPatterns(_, _, _, _, _)
MergeCategoryPatterns(cm, cat_patterns, buttons, path, group_patterns) ==
  IF cat_patterns = <<>> THEN cm
  ELSE MergeCategoryPatterns(
         IF ReMatch(CategoryMatcher(Head(cat_patterns)), path)
         THEN MergeButtons(cm, buttons, group_patterns) ELSE cm,
         Tail(cat_patterns), buttons, path, group_patterns)

\* A variant of CategoryMappings that takes the first category table
\* whatever the path.
CategoryMappingsFirstTable(cm, categories, path, group_patterns) ==
  IF categories = <<>> THEN cm
  ELSE MergeButtons(cm, Head(categories).buttons, group_patterns)

\* Lines 70-100: category_mappings, an insertion-ordered dict.
RECURSIVE CategoryMappings(_, _, _, _)
CategoryMappings(cm, categories, path, group_patterns) ==
  IF categories = <<>> THEN cm
  ELSE CategoryMappings(
         MergeCategoryPatterns(cm, SplitCommas(Head(categories).category_pattern, <<>>),
                               Head(categories).buttons, path, group_patterns),
         Tail(categories), path, group_patterns)

\* Lines 110-118: one compiled pattern against the record's name.
PatternMatches(pattern, original_name) ==
  IF pattern.kind = "regex"
  THEN ReMatch(pattern.re, original_name)
  ELSE LowerSeq(original_name) = Strip(pattern.text)

\* Lines 109-118: new_name after the inner loop over one button's patterns.
NameAfterPatterns(new_name, standard_name, patterns, original_name) ==
  IF \E i \in 1..Len(patterns) : PatternMatches(patterns[i], original_name)
  THEN standard_name ELSE new_name

\* Lines 107-122: the loop over category_mappings; it stops at the first
\* button that leaves new_name different from original_name.
RECURSIVE ResolveName(_, _, _)
ResolveName(new_name, cm, original_name) ==
  IF cm = <<>> THEN [name |-> new_name, renamed |-> FALSE]
  ELSE LET n == NameAfterPatterns(new_name, Head(cm).standard_name,
                                  Head(cm).patterns, original_name)
       IN IF n # original_name
          THEN [name |-> n, renamed |-> TRUE]
          ELSE ResolveName(n, Tail(cm), original_name)

\* Lines 105-125 for one entry.
NormalizeEntry(entry, cm) ==
  LET original_name == Strip(entry.name)
      r == ResolveName(original_name, cm, original_name)
  IN [entry EXCEPT !.name = Strip(r.name),
                   !.signal = [@ EXCEPT ![1] = NameLine(Strip(r.name))]]

\* A variant of EntryRenamed that counts every entry a matcher matches.
EntryRenamedOnMatch(entry, cm) ==
  \E k \in 1..Len(cm) :
    \E i \in 1..Len(cm[k].patterns) :
      PatternMatches(cm[k].patterns[i], Strip(entry.name))

\* Lines 119-121: whether the entry is counted in buttons_renamed.
EntryRenamed(entry, cm) ==
  ResolveName(Strip(entry.name), cm, Strip(entry.name)).renamed

\* normalize_button_names: the entries after the call, and its return value.
NormalizeButtonNames(signals, rules, path) ==
  LET cm == CategoryMappings(<<>>, rules.categories, ForwardSlashes(path),
                             GroupPatterns(rules.groups))
  IN
  [signals |-> [i \in 1..Len(signals) |-> NormalizeEntry(signals[i], cm)],
   buttons_renamed |->
     Cardinality({i \in 1..Len(signals) : EntryRenamed(signals[i], cm)})]

(***************************************************************************)
(* clean_and_deduplicate: merge and rebuild                                *)
(***************************************************************************)

\* The position of name in the insertion-ordered dict unique_signals, 0 when
\* it is not a key.
IndexOfKey(unique, name) ==
  IF \E i \in 1..Len(unique) : unique[i].name = name
  THEN CHOOSE i \in 1..Len(unique) : unique[i].name = name
  ELSE 0

\* A variant of MergeEntry in which every repeat replaces the stored entry.
MergeEntryLastWins(unique, duplicates, entry) ==
  LET at == IndexOfKey(unique, entry.name) IN
  IF at = 0
  THEN [unique_signals |-> Append(unique, entry),
        duplicates_removed |-> duplicates]
  ELSE [unique_signals |-> [unique EXCEPT ![at] = entry],
        duplicates_removed |-> duplicates + 1]

\* A variant of MergeEntry that counts a repeat only when it replaces the
\* stored entry.
MergeEntryCountReplaced(unique, duplicates, entry) ==
  LET at == IndexOfKey(unique, entry.name) IN
  IF at = 0
  THEN [unique_signals |-> Append(unique, entry),
        duplicates_removed |-> duplicates]
  ELSE IF unique[at].source = "original" /\ entry.source = "decoded"
  THEN [unique_signals |-> [unique EXCEPT ![at] = entry],
        duplicates_removed |-> duplicates + 1]
  ELSE [unique_signals |-> unique, duplicates_removed |-> duplicates]

\* A variant of MergeEntry in which an original record replaces a stored
\* decoded one.
MergeEntryOriginalWins(unique, duplicates, entry) ==
  LET at == IndexOfKey(unique, entry.name) IN
  IF at = 0
  THEN [unique_signals |-> Append(unique, entry),
        duplicates_removed |-> duplicates]
  ELSE IF unique[at].source = "decoded" /\ entry.source = "original"
  THEN [unique_signals |-> [unique EXCEPT ![at] = entry],
        duplicates_removed |-> duplicates + 1]
  ELSE [unique_signals |-> unique, duplicates_removed |-> duplicates + 1]

\* A variant of MergeEntry that puts a new name in front of the stored ones.
MergeEntryNewestFirst(unique, duplicates, entry) ==
  LET at == IndexOfKey(unique, entry.name) IN
  IF at = 0
  THEN [unique_signals |-> <<entry>> \o unique,
        duplicates_removed |-> duplicates]
  ELSE IF unique[at].source = "original" /\ entry.source = "decoded"
  THEN [unique_signals |-> [unique EXCEPT ![at] = entry],
        duplicates_removed |-> duplicates + 1]
  ELSE [unique_signals |-> unique, duplicates_removed |-> duplicates + 1]

\* One iteration of the loop of lines 222-235.
MergeEntry(unique, duplicates, entry) ==
  LET at == IndexOfKey(unique, entry.name) IN
  IF at = 0
  THEN [unique_signals |-> Append(unique, entry),
        duplicates_removed |-> duplicates]
  ELSE IF unique[at].source = "original" /\ entry.source = "decoded"
  THEN [unique_signals |-> [unique EXCEPT ![at] = entry],
        duplicates_removed |-> duplicates + 1]
  ELSE [unique_signals |-> unique, duplicates_removed |-> duplicates + 1]

\* A variant of EmitEntry that emits every non-empty comment block.
EmitEntryEveryBlock(acc, entry) ==
  LET with_signal == acc.content \o entry.comments \o entry.signal
  IN [content |-> IF ~IsBareHash(with_signal[Len(with_signal)])
                  THEN Append(with_signal, HashLine) ELSE with_signal,
      comments_readded |-> acc.comments_readded + Len(entry.comments)]

\* One iteration of the loop of lines 240-251.
EmitEntry(acc, entry) ==
  LET with_comments ==
        IF entry.comments # <<>>
           /\ (acc.content = <<>> \/ ~IsBareHash(acc.content[Len(acc.content)]))
        THEN [content |-> acc.content \o entry.comments,
              comments_readded |-> acc.comments_readded + Len(entry.comments)]
        ELSE acc
      with_signal == with_comments.content \o entry.signal
  IN [content |-> IF with_signal # <<>> /\ ~IsBareHash(with_signal[Len(with_signal)])
                  THEN Append(with_signal, HashLine) ELSE with_signal,
      comments_readded |-> with_comments.comments_readded]

RECURSIVE EmitEntries(_, _)
EmitEntries(acc, entries) ==
  IF entries = <<>> THEN acc
  ELSE EmitEntries(EmitEntry(acc, Head(entries)), Tail(entries))

\* A variant of PopTrailingEmpty that leaves the end of the content alone.
PopTrailingEmptyKeep(content) == content

\* A variant of PopTrailingEmpty that pops the blank lines only.
RECURSIVE PopTrailingEmptyBlankOnly(_)
PopTrailingEmptyBlankOnly(content) ==
  IF content # <<>> /\ Strip(content[Len(content)]) = <<>>
  THEN PopTrailingEmptyBlankOnly(SubSeq(content, 1, Len(content) - 1))
  ELSE content

\* Lines 254-255.
RECURSIVE PopTrailingEmpty(_)
PopTrailingEmpty(content) ==
  IF content # <<>>
     /\ (Strip(content[Len(content)]) = <<>> \/ IsBareHash(content[Len(content)]))
  THEN PopTrailingEmpty(SubSeq(content, 1, Len(content) - 1))
  ELSE content

\* A variant of CollapseHashes that keeps every line.
CollapseHashesKeep(content, prev_line_was_hash) == content

\* Lines 258-268.
RECURSIVE CollapseHashes(_, _)
CollapseHashes(content, prev_line_was_hash) ==
  IF content = <<>> THEN <<>>
  ELSE IF IsBareHash(Head(content))
       THEN (IF prev_line_was_hash THEN <<>> ELSE <<HashLine>>)
            \o CollapseHashes(Tail(content), TRUE)
       ELSE <<Head(content)>> \o CollapseHashes(Tail(content), FALSE)

\* Lines 238-270: the rebuilt content and comments_readded.
Rebuild(initial, unique) ==
  LET emitted == EmitEntries([content |-> initial, comments_readded |-> 0], unique)
  IN [cleaned_content |-> CollapseHashes(PopTrailingEmpty(emitted.content), FALSE),
      comments_readded |-> emitted.comments_readded]

(***************************************************************************)
(* compare_files: the report                                               *)
(***************************************************************************)

InSeq(x, s) == \E i \in 1..Len(s) : s[i] = x

\* Lines 303-305 and 309: len(lost_comments).
LostComments(original, cleaned) ==
  Cardinality({i \in 1..Len(original) :
                 /\ IsCommentLine(original[i])
                 /\ ~\E j \in 1..Len(cleaned) :
                       IsCommentLine(cleaned[j]) /\ cleaned[j] = original[i]})

\* '\n'.join(lines)
RECURSIVE JoinLines(_)
JoinLines(lines) ==
  IF lines = <<>> THEN <<>>
  ELSE IF Len(lines) = 1 THEN Head(lines)
  ELSE Head(lines) \o <<"\n">> \o JoinLines(Tail(lines))

\* Lines 299-300: difference_ratio == 0.  SequenceMatcher.ratio() is 2*M/T,
\* M the number of matched characters and T the total length: it is 1.0 for
\* two empty texts, below 1 whenever the two texts differ, and 1.0 for equal
\* texts (the matcher anchors on a character that is not "popular"; texts of
\* 200 characters or more in which every character is popular are not
\* covered).
DifferenceIsZero(original, cleaned) == JoinLines(original) = JoinLines(cleaned)

(***************************************************************************)
(* clean_and_deduplicate and compare_files as whole calls, on files        *)
(***************************************************************************)

\* A pattern string '/.../' that re.compile rejects, such as '/(/'.
RInvalid == [op |-> "invalid", atoms |-> {}, kids |-> <<>>]

\* re.compile raises re.error on the pattern (lines 61-63 and 92-94).
CompileRaises(pattern) == pattern.kind = "regex" /\ pattern.re = RInvalid

\* Lines 57-67: the groups are compiled whatever the path.
GroupsRaise(groups) ==
  \E g \in DOMAIN groups :
    \E i \in 1..Len(groups[g]) : CompileRaises(groups[g][i])

\* Lines 70-96: the patterns of a category table are compiled when one of
\* the category's alternatives matches the path.
CategoryRaises(category, path) ==
  /\ \E k \in 1..Len(SplitCommas(category.category_pattern, <<>>)) :
       ReMatch(CategoryMatcher(SplitCommas(category.category_pattern, <<>>)[k]),
               path)
  /\ \E b \in 1..Len(category.buttons) :
       \E i \in 1..Len(category.buttons[b].patterns) :
         CompileRaises(category.buttons[b].patterns[i])

\* normalize_button_names raises re.error before its loop over the signals.
NormalizeRaises(rules, path) ==
  \/ GroupsRaise(rules.groups)
  \/ \E c \in 1..Len(rules.categories) :
       CategoryRaises(rules.categories[c], ForwardSlashes(path))

\* The loop of lines 222-235.
RECURSIVE MergeAll(_, _, _)
MergeAll(unique, duplicates, entries) ==
  IF entries = <<>>
  THEN [unique_signals |-> unique, duplicates_removed |-> duplicates]
  ELSE LET r == MergeEntry(unique, duplicates, Head(entries)) IN
       MergeAll(r.unique_signals, r.duplicates_removed, Tail(entries))

\* Lines 213-217: whether normalize_button_names raises, the entries after
\* it and buttons_renamed.
NormalizedSignals(collected, normalizing, rules, path) ==
  IF normalizing /\ rules # NoMapping
  THEN IF NormalizeRaises(rules, path)
       THEN [raised |-> TRUE, signals |-> collected, buttons_renamed |-> 0]
       ELSE [raised |-> FALSE,
             signals |-> NormalizeButtonNames(collected, rules, path).signals,
             buttons_renamed |->
               NormalizeButtonNames(collected, rules, path).buttons_renamed]
  ELSE [raised |-> FALSE, signals |-> collected, buttons_renamed |-> 0]

\* Lines 219-270: the tuple clean_and_deduplicate returns, from the header
\* and the normalised entries.
CleanedFrom(initial, normalized) ==
  LET merged == MergeAll(<<>>, 0, normalized.signals)
      rebuilt == Rebuild(initial, merged.unique_signals)
  IN [raised |-> normalized.raised,
      cleaned_content |-> rebuilt.cleaned_content,
      duplicates_removed |-> merged.duplicates_removed,
      buttons_renamed |-> normalized.buttons_renamed,
      comments_readded |-> rebuilt.comments_readded]

\* Lines 143-270, once initial_content is known.
CleanedWith(initial, original, decoded, normalizing, rules, path) ==
  CleanedFrom(initial,
              NormalizedSignals(
                CollectSignals(original, initial, RemoveDecodedHeaders(decoded)),
                normalizing, rules, path))

\* clean_and_deduplicate, lines 128-270: whether it raises, and the tuple it
\* returns.
CleanAndDeduplicate(original, decoded, normalizing, rules, path) ==
  CleanedWith(InitialContent(original), original, decoded, normalizing, rules,
              path)

\* str.splitlines() on a text whose only line break is "\n".
RECURSIVE SplitLines(_, _)
SplitLines(text, current) ==
  IF text = <<>> THEN (IF current = <<>> THEN <<>> ELSE <<current>>)
  ELSE IF Head(text) = "\n"
       THEN <<current>> \o SplitLines(Tail(text), <<>>)
       ELSE SplitLines(Tail(text), Append(current, Head(text)))

\* A file of one of the two trees: whether it exists, its text, whether
\* open(.., 'r') succeeds on it, and what open(.., 'w') and write do
\* ("yes", "open fails", "write fails").
File(exists, text, readable, writable) ==
  [exists |-> exists, text |-> text, readable |-> readable,
   writable |-> writable]

\* read_file, lines 32-38: <<lines>>, or <<>> for None.
ReadFile(file) ==
  IF file.readable THEN <<SplitLines(file.text, <<>>)>> ELSE <<>>

\* A variant of WriteFile that reports success when open fails.
WriteFileAlwaysTrue(file, content) ==
  IF file.writable = "yes"
  THEN [file |-> [file EXCEPT !.text = JoinLines(content)], ok |-> TRUE]
  ELSE IF file.writable = "open fails"
  THEN [file |-> file, ok |-> TRUE]
  ELSE [file |-> [file EXCEPT !.text = <<>>], ok |-> FALSE]

\* write_file, lines 40-47: the file afterwards and the return value.  When
\* open fails the file is untouched; when the write fails after open has
\* truncated the file, the file is left empty.
WriteFile(file, content) ==
  IF file.writable = "yes"
  THEN [file |-> [file EXCEPT !.text = JoinLines(content)], ok |-> TRUE]
  ELSE IF file.writable = "open fails"
  THEN [file |-> file, ok |-> FALSE]
  ELSE [file |-> [file EXCEPT !.text = <<>>], ok |-> FALSE]

\* One record of io_log.
IO(op, dir, path) == [op |-> op, dir |-> dir, path |-> path]

\* The dict compare_files returns (lines 307-314); difference_ratio is kept
\* as "is zero", diff_summary is left out.
Comparison(zero, lost, duplicates, renamed, readded) ==
  [difference_zero |-> zero, lost_comments |-> lost,
   duplicates_removed |-> duplicates, buttons_renamed |-> renamed,
   comments_readded |-> readded]

\* The reads of lines 274-275.
Reads(relative_path) ==
  <<IO("read", "original", relative_path), IO("read", "decoded", relative_path)>>

\* compare_files, lines 293-314, after a successful write.
CompareFilesWritten(original, cleaned, decoded_file, relative_path) ==
  [comparison |->
     <<Comparison(DifferenceIsZero(original, cleaned.cleaned_content),
                  LostComments(original, cleaned.cleaned_content),
                  cleaned.duplicates_removed, cleaned.buttons_renamed,
                  cleaned.comments_readded)>>,
   decoded_file |-> decoded_file,
   io |-> Append(Reads(relative_path), IO("write", "decoded", relative_path))]

\* compare_files, lines 289-292: the write of the rebuilt content.
CompareFilesCleaned(original, cleaned, decoded_file, written, relative_path) ==
  IF cleaned.raised
  THEN [comparison |-> <<>>, decoded_file |-> decoded_file,
        io |-> Reads(relative_path)]
  ELSE IF ~written.ok
  THEN [comparison |-> <<>>, decoded_file |-> written.file,
        io |-> Append(Reads(relative_path),
                      IO("write", "decoded", relative_path))]
  ELSE CompareFilesWritten(original, cleaned, written.file, relative_path)

\* compare_files, lines 280-292, both files read; an exception in
\* clean_and_deduplicate is caught at line 315, before the write.
CompareFilesRead(original, decoded, decoded_file, cleaned, relative_path) ==
  CompareFilesCleaned(original, cleaned, decoded_file,
                      WriteFile(decoded_file, cleaned.cleaned_content),
                      relative_path)

\* compare_files, lines 272-318: the result (<<dict>>, or <<>> for None), the
\* decoded file afterwards and the reads and writes made.
CompareFiles(original_file, decoded_file, normalizing, rules, relative_path) ==
  IF ReadFile(original_file) = <<>> \/ ReadFile(decoded_file) = <<>>
  THEN [comparison |-> <<>>, decoded_file |-> decoded_file,
        io |-> Reads(relative_path)]
  ELSE CompareFilesRead(
         ReadFile(original_file)[1], ReadFile(decoded_file)[1], decoded_file,
         CleanAndDeduplicate(ReadFile(original_file)[1],
                             ReadFile(decoded_file)[1], normalizing, rules,
                             relative_path),
         relative_path)

\* The accumulators of analyze_directories at lines 327-335
\* (total_difference_ratio, a sum of ratios, is left out).
NoTotals ==
  [total_files_processed |-> 0, total_duplicates_removed |-> 0,
   total_lost_comments |-> 0, total_files_with_differences |-> 0,
   total_buttons_renamed |-> 0, total_comments_readded |-> 0]

\* Lines 356-361 and 373.
AddToTotals(t, comparison, significant) ==
  [total_files_processed |-> t.total_files_processed + 1,
   total_duplicates_removed |->
     t.total_duplicates_removed + comparison.duplicates_removed,
   total_lost_comments |-> t.total_lost_comments + comparison.lost_comments,
   total_files_with_differences |->
     t.total_files_with_differences + (IF significant THEN 1 ELSE 0),
   total_buttons_renamed |->
     t.total_buttons_renamed + comparison.buttons_renamed,
   total_comments_readded |->
     t.total_comments_readded + comparison.comments_readded]

(***************************************************************************)
(* The inputs: line sequences assembled from short blocks of lines         *)
(***************************************************************************)

\* The largest number of blocks in an original and in a decoded file.
MaxOriginalBlocks == 2
MaxDecodedBlocks == 1

FiletypeLine == <<"Filetype", ":", " ", "IR signals file">>
VersionLine == <<"Version", ":", " ", "1">>
SpacedHashLine == <<" ", "#", " ">>
RemarkLine == <<"#", " ", "remark">>
BlankLine == <<>>
TypeRawLine == <<"type", ":", " ", "raw">>
DataLine == <<"data", ":", " ", "1 2 3">>
TypeParsedLine == <<"type", ":", " ", "parsed">>
ProtocolLine == <<"protocol", ":", " ", "NEC">>
AddressLine == <<"address", ":", " ", "00">>
CommandLine == <<"command", ":", " ", "01">>
EmptyNameLine == <<"name", ":">>

OriginalBlocks ==
  { <<HashLine>>, <<SpacedHashLine>>, <<HashLine, HashLine, HashLine>>,
    <<RemarkLine>>, <<BlankLine>>, <<FiletypeLine>>,
    <<FiletypeLine, HashLine>>, <<TypeRawLine>>,
    <<EmptyNameLine>>, <<NameLine(<<"OFF">>)>>,
    <<NameLine(<<"Power">>), TypeRawLine>> }

DecodedBlocks ==
  { <<HashLine>>, <<RemarkLine>>, <<TypeParsedLine>>,
    <<<<"Name", " ", ":", "off">>>>, <<NameLine(<<"OFF">>)>>,
    <<NameLine(<<"Power">>), TypeParsedLine>> }

\* The files of the end-to-end example.
ExampleOriginal ==
  <<FiletypeLine, VersionLine, HashLine, NameLine(<<"Power">>), TypeRawLine,
    DataLine, HashLine>>
ExampleDecoded ==
  <<NameLine(<<"Power">>), TypeParsedLine, ProtocolLine, AddressLine,
    CommandLine>>

\* A canonical file with two records.
CanonicalOriginal ==
  <<FiletypeLine, VersionLine, HashLine, NameLine(<<"OFF">>), TypeRawLine,
    HashLine, NameLine(<<"Power">>), TypeRawLine, HashLine>>

\* The same file without the separator after the last record.
CanonicalFixedPoint == SubSeq(CanonicalOriginal, 1, Len(CanonicalOriginal) - 1)

\* Two records with three separator lines between them.
TripleHashOriginal ==
  <<NameLine(<<"OFF">>), HashLine, HashLine, HashLine, NameLine(<<"Power">>),
    TypeRawLine>>

\* The files of the decoded-preference example.
PowerRaw == <<NameLine(<<"Power">>), TypeRawLine>>
PowerParsed == <<NameLine(<<"Power">>), TypeParsedLine>>

\* Decoded files with two records, with the same name twice, and with a
\* record that follows a field line and a comment.
TwoDecoded == <<NameLine(<<"OFF">>), NameLine(<<"Power">>), TypeParsedLine>>
RepeatedDecoded == <<NameLine(<<"OFF">>), TypeParsedLine, NameLine(<<"OFF">>)>>
RemarkedDecoded == <<TypeParsedLine, RemarkLine, NameLine(<<"OFF">>)>>

\* An original whose header follows a blank line.
BlankBeforeHeader == <<BlankLine, FiletypeLine, NameLine(<<"OFF">>)>>

\* Three records, a comment line before the second and before the third.
RemarkedRecords ==
  <<NameLine(<<"OFF">>), RemarkLine, NameLine(<<"Power">>), HashLine,
    NameLine(<<"A">>)>>

RECURSIVE Flatten(_)
Flatten(blocks) ==
  IF blocks = <<>> THEN <<>> ELSE Head(blocks) \o Flatten(Tail(blocks))

FilesOf(blocks, n) ==
  {Flatten(bs) : bs \in UNION {[1..k -> blocks] : k \in 0..n}}

OriginalInputs ==
  FilesOf(OriginalBlocks, MaxOriginalBlocks)
    \cup {ExampleOriginal, CanonicalOriginal, CanonicalFixedPoint,
          TripleHashOriginal, BlankBeforeHeader, RemarkedRecords}

DecodedInputs ==
  FilesOf(DecodedBlocks, MaxDecodedBlocks)
    \cup {ExampleDecoded, TwoDecoded, RepeatedDecoded, RemarkedDecoded}

TVPath == <<"TVs", "/", "Samsung", "/", "x.ir">>
ACPath == <<"ACs", "/", "LG", "/", "x.ir">>

\* The inputs of the runs that exercise the rule set: records under several
\* names, at paths inside and outside the categories.
NamedOriginalBlocks ==
  { <<NameLine(<<"OFF">>)>>, <<NameLine(<<"mute">>)>>,
    <<NameLine(<<"pwr", "_", "off">>)>>, <<NameLine(<<"Power">>)>>,
    <<NameLine(<<"Vol", "ume", " ", "up">>)>>, <<NameLine(<<"mute", "2">>)>>,
    <<NameLine(<<"A">>)>>, <<TypeRawLine>> }

NamedDecodedBlocks ==
  { <<<<"Name", " ", ":", "off">>>>, <<NameLine(<<"Mute">>), TypeParsedLine>> }

NamedOriginalInputs == FilesOf(NamedOriginalBlocks, MaxOriginalBlocks)
NamedDecodedInputs == FilesOf(NamedDecodedBlocks, MaxDecodedBlocks)

Paths ==
  { TVPath, ACPath, <<"acs", "\\", "x.ir">>, <<"SoundBars", "/", "x.ir">>,
    <<"Projectors", "/", "x.ir">>, <<"TVs">> }

\* The largest number of .ir files in the original tree.
MaxFiles == 2

ProjectorsPath == <<"Projectors", "/", "x.ir">>

\* os.path.relpath of the files of the original tree, in the order of
\* os.walk.
WalkPaths == <<TVPath, ACPath, ProjectorsPath>>

CommentedOff == <<RemarkLine, NameLine(<<"OFF">>)>>
OffParsed == <<NameLine(<<"OFF">>), TypeParsedLine>>

\* The files of the original tree: readable ones and one that cannot be
\* opened.
OriginalFiles ==
  {File(TRUE, JoinLines(c), TRUE, "yes") : c \in {PowerRaw, CommentedOff}}
    \cup {File(TRUE, JoinLines(PowerRaw), FALSE, "yes")}

\* The files at the same relative paths of the decoded tree: missing,
\* unreadable, writable, and two on which writing fails.
DecodedFiles ==
  {File(FALSE, <<>>, FALSE, "open fails"),
   File(TRUE, JoinLines(PowerParsed), FALSE, "yes")}
    \cup {File(TRUE, JoinLines(c), TRUE, "yes") : c \in {PowerParsed, OffParsed}}
    \cup {File(TRUE, JoinLines(PowerParsed), TRUE, w) :
            w \in {"open fails", "write fails"}}

\* load_mapping().
LoadedMapping == Mapping(Groups, Categories)

\* The loaded rule set with a pattern that does not compile, in a group and
\* in the table of 'ACs/*'.
BadGroupMapping ==
  Mapping([Groups EXCEPT !["mute"] = Append(@, RegexPattern(RInvalid))],
          Categories)
BadCategoryMapping ==
  Mapping(Groups,
          [Categories EXCEPT
             ![2].buttons = Append(@, Button(<<"On">>,
                                             <<RegexPattern(RInvalid)>>))])

Mappings == {LoadedMapping, BadGroupMapping, BadCategoryMapping}

\* A rule set whose table for 'TVs/*' is {"Power": ["power"],
\* "Off": ["/^power.*$/"]}.
ShadowRules ==
  Mapping(Groups,
          << Category(<<"TVs", "/", "*">>,
               << Button(<<"Power">>, <<LiteralPattern(<<"power">>)>>),
                  Button(<<"Off">>,
                         <<RegexPattern(RCat(<<RBol, RLit("power"),
                                               RStar(RAny), REol>>))>>) >>) >>)

\* A rule set whose table for 'TVs/*' is {"Mute": ["/mute/"]}.
PrefixRules ==
  Mapping(Groups,
          << Category(<<"TVs", "/", "*">>,
               << Button(<<"Mute">>, <<RegexPattern(RLit("mute"))>>) >>) >>)

RuleSets == {LoadedMapping, ShadowRules, PrefixRules}

\* The inputs of the runs over the rule sets.
RuleOriginalBlocks ==
  { <<NameLine(<<"Power">>)>>, <<NameLine(<<"power">>)>>,
    <<NameLine(<<"mute", "2">>)>>, <<NameLine(<<"mte">>)>>,
    <<NameLine(<<"OFF">>)>>, <<TypeRawLine>> }

RuleOriginalInputs == FilesOf(RuleOriginalBlocks, MaxOriginalBlocks)

(***************************************************************************)
(* decode-irdb-cli.py: the commands sent to the Flipper Zero.  A response  *)
(* is a sequence of atoms, as a line is; None is kept apart from the empty *)
(* string.                                                                 *)
(***************************************************************************)

\* The values of send_command: None, or a string.
None == [none |-> TRUE, text |-> <<>>]
Response(text) == [none |-> FALSE, text |-> text]

\* What one call of send_command meets on the serial line: the write raises,
\* or the loop of lines 91-97 collects text.
Device(raises, text) == [raises |-> raises, text |-> text]

IsWhitespace(a) == a \in {" ", "\r\n", "\n", "\t"}

\* str.strip() on a response.
RECURSIVE StripResponse(_)
StripResponse(text) ==
  IF text = <<>> THEN <<>>
  ELSE IF IsWhitespace(Head(text)) THEN StripResponse(Tail(text))
  ELSE IF IsWhitespace(text[Len(text)])
       THEN StripResponse(SubSeq(text, 1, Len(text) - 1))
  ELSE text

\* marker in atom, for the atoms of the responses.
AtomContains(atom, marker) ==
  \/ atom = marker
  \/ atom = "Error:" /\ marker = "Error"
  \/ atom = "Failed:" /\ marker = "Failed"

\* marker in text
Has(text, marker) == \E i \in 1..Len(text) : AtomContains(text[i], marker)

\* send_command, lines 86-112.
SendCommand(raw) ==
  IF raw.raises THEN None
  ELSE \* lines 99-110
       IF \E unwanted \in {"Welcome to Flipper Zero", "Firmware version", ">:"} :
             Has(StripResponse(raw.text), unwanted)
       THEN Response(<<>>)
       ELSE IF \/ Has(StripResponse(raw.text), "Error:")
               \/ Has(StripResponse(raw.text), "Failed:")
       THEN None
       ELSE Response(StripResponse(raw.text))

\* The default of max_retries (line 115); no caller passes another value.
MaxRetries == 3

\* A variant of SendCommandWithRetry that returns the last response once
\* max_retries attempts are made.
SendCommandWithRetryAllAttempts(made, response, max_retries) ==
  [attempts |-> Append(made, response),
   returned |-> IF Len(made) + 1 >= max_retries THEN <<response>> ELSE <<>>]

\* One iteration of the loop of send_command_with_retry (lines 119-124) and
\* line 126 after the last one: made are the responses of the attempts made
\* before, response is the one of this attempt; returned is <<>> while the
\* loop goes on and holds the value returned otherwise.
SendCommandWithRetry(made, response, max_retries) ==
  [attempts |-> Append(made, response),
   returned |-> IF ~response.none THEN <<response>>
                ELSE IF Len(made) + 1 >= max_retries THEN <<None>>
                ELSE <<>>]

\* The test of line 136.
CreateDirectoryFails(response) ==
  \/ response.none
  \/ /\ Has(response.text, "Storage error:")
     /\ ~Has(LowerSeq(response.text), "already exists")

\* The test of line 216.
DecodeFails(response) ==
  \/ response.none
  \/ Has(response.text, "Error")
  \/ Has(response.text, "Failed")

\* verify_file_exists, line 195.
VerifyFileExists(response) ==
  ~response.none /\ ~Has(response.text, "File not found")

\* str.replace("\\", "/")
ReplaceBackslashes(path) ==
  [i \in 1..Len(path) |-> IF path[i] = "\\" THEN "/" ELSE path[i]]

\* The default of --flipper-dir, and a directory given as --parsed-dir.
FlipperDir == <<"/", "ext", "/", "infrared", "/", "Flipper-IRDB-main", "/">>
ParsedDir == <<"/", "DECODED-IRDB", "/">>

\* Lines 202-203.
InputFile(file) ==
  ReplaceBackslashes(FlipperDir \o file.relative_path \o <<"/", file.ir_file>>)
OutputFile(file) ==
  ReplaceBackslashes(ParsedDir \o file.relative_path \o <<"/", file.ir_file>>)

\* os.path.dirname on a path with '/' separators.
RECURSIVE Dirname(_)
Dirname(path) ==
  IF path = <<>> THEN <<>>
  ELSE IF path[Len(path)] = "/"
       THEN (IF Len(path) = 1 THEN path ELSE SubSeq(path, 1, Len(path) - 1))
  ELSE Dirname(SubSeq(path, 1, Len(path) - 1))

\* str.strip('/')
RECURSIVE StripSlashes(_)
StripSlashes(path) ==
  IF path = <<>> THEN <<>>
  ELSE IF Head(path) = "/" THEN StripSlashes(Tail(path))
  ELSE IF path[Len(path)] = "/"
       THEN StripSlashes(SubSeq(path, 1, Len(path) - 1))
  ELSE path

\* str.split('/'): part is the component being read.
RECURSIVE SplitSlashes(_, _)
SplitSlashes(path, part) ==
  IF path = <<>> THEN <<part>>
  ELSE IF Head(path) = "/" THEN <<part>> \o SplitSlashes(Tail(path), <<>>)
  ELSE SplitSlashes(Tail(path), Append(part, Head(path)))

\* Line 132.
Components(path) == SplitSlashes(StripSlashes(path), <<>>)

\* A variant of DecodeIrFileReturn that does not record a failed file.
DecodeIrFileReturnUnrecorded(decoded, count, failed, input_file) ==
  [processed_count |-> IF decoded THEN count + 1 ELSE count,
   failed_files |-> failed,
   value |-> decoded]

\* The three failure exits (lines 207-210, 216-219, 226-228) and the success
\* exit (lines 222-224) of decode_ir_file: the counters and the value
\* returned.
DecodeIrFileReturn(decoded, count, failed, input_file) ==
  [processed_count |-> IF decoded THEN count + 1 ELSE count,
   failed_files |-> IF decoded THEN failed ELSE Append(failed, input_file),
   value |-> decoded]

\* The largest number of files given to process_ir_files, and the largest
\* --close-apps-frequency.
MaxIrFiles == 3
MaxFrequency == 3

FileNames == <<"a.ir", "b.ir", "c.ir", "d.ir", "e.ir", "f.ir">>

\* The k-th pair of gather_ir_files: files directly in a category and in a
\* brand directory, the latter with the separator of Windows.
IrFile(k) ==
  [relative_path |-> IF k % 2 = 1 THEN <<"TVs">>
                     ELSE <<"TVs", "\\", "Samsung">>,
   ir_file |-> FileNames[k]]

\* What the device answers to one command.
DeviceResponses ==
  { Device(TRUE, <<>>),
    Device(FALSE, <<>>),
    Device(FALSE, <<"ok", "\r\n">>),
    Device(FALSE, <<"Error:", " ", "busy", "\r\n">>),
    Device(FALSE, <<"Failed:", " ", "busy", "\r\n">>),
    Device(FALSE, <<"Error:", " ", "busy", "\r\n", ">:", " ">>),
    Device(FALSE, <<"Welcome to Flipper Zero", "\r\n">>),
    Device(FALSE, <<"Storage error:", " ", "file/dir already exist", "\r\n">>),
    Device(FALSE, <<"Storage error:", " ", "already exists", "\r\n">>),
    Device(FALSE, <<"File not found", "\r\n">>),
    Device(FALSE, <<"Decode", " ", "Error", "\r\n">>) }

\* The decoder's variables in the runs of the cleaner.
DecoderIdle ==
  /\ ir_files = <<>>
  /\ close_apps_frequency = 1
  /\ index = 1
  /\ decoder_pc = "loop"
  /\ close_command = 1
  /\ component = 1
  /\ attempts = <<>>
  /\ retry_returned = <<>>
  /\ raw_response = Device(FALSE, <<>>)
  /\ last_response = Response(<<>>)
  /\ processed_count = 0
  /\ failed_files = <<>>
  /\ close_log = <<>>
  /\ return_log = <<>>

\* The driver's variables in the runs of a single call of compare_files.
DriverIdle ==
  /\ original_dir = <<>>
  /\ decoded_dir = <<>>
  /\ mapping = LoadedMapping
  /\ file_limit = 0
  /\ file_index = 1
  /\ results = <<>>
  /\ skipped_files = <<>>
  /\ totals = NoTotals
  /\ visited = <<>>
  /\ io_log = <<>>
  /\ returned = FALSE

(***************************************************************************)
(* The state machine: one call of compare_files on a pair of files that    *)
(* have been read, step by step through clean_and_deduplicate, and a       *)
(* second call on the first call's output.                                 *)
(***************************************************************************)

\* The locals of clean_and_deduplicate and compare_files before the call.
FreshLocals ==
  /\ pc = "extract"
  /\ initial_content = <<>>
  /\ decoded_content_no_headers = <<>>
  /\ all_signals = <<>>
  /\ parsed_signals = <<>>
  /\ unique_signals = <<>>
  /\ entry_index = 1
  /\ duplicates_removed = 0
  /\ buttons_renamed = 0
  /\ cleaned_content = <<>>
  /\ comments_readded = 0
  /\ lost_comments = 0
  /\ difference_zero = FALSE

\* Lines 129-154: the header of the original, the decoded source without
\* its header.
ExtractHeaders ==
  /\ pc = "extract"
  /\ initial_content' = InitialContent(original_content)
  /\ decoded_content_no_headers' = RemoveDecodedHeaders(decoded_content)
  /\ pc' = "collect"
  /\ UNCHANGED <<original_content, decoded_content, normalize, file_path,
                 all_signals, parsed_signals, unique_signals, entry_index,
                 duplicates_removed, buttons_renamed, cleaned_content,
                 comments_readded, lost_comments, difference_zero, call_no,
                 first_output,
                 driver, decoder>>

\* Lines 156-211.
Collect ==
  /\ pc = "collect"
  /\ all_signals' = CollectSignals(original_content, initial_content,
                                   decoded_content_no_headers)
  /\ parsed_signals' = all_signals'
  /\ pc' = "normalize"
  /\ UNCHANGED <<original_content, decoded_content, normalize, file_path,
                 initial_content, decoded_content_no_headers, unique_signals,
                 entry_index, duplicates_removed, buttons_renamed,
                 cleaned_content, comments_readded, lost_comments,
                 difference_zero, call_no, first_output,
                 driver, decoder>>

\* Lines 213-217: normalize_button_names is called when normalize is set and
\* a mapping is given.
Normalize ==
  /\ pc = "normalize"
  /\ IF normalize /\ mapping # NoMapping
     THEN LET r == NormalizeButtonNames(all_signals, mapping, file_path) IN
          /\ all_signals' = r.signals
          /\ buttons_renamed' = r.buttons_renamed
     ELSE /\ all_signals' = all_signals
          /\ buttons_renamed' = 0
  /\ pc' = "merge"
  /\ UNCHANGED <<original_content, decoded_content, normalize, file_path,
                 initial_content, decoded_content_no_headers, parsed_signals,
                 unique_signals, entry_index, duplicates_removed,
                 cleaned_content, comments_readded, lost_comments,
                 difference_zero, call_no, first_output,
                 driver, decoder>>

\* Lines 222-235: one entry of all_signals.
MergeStep ==
  /\ pc = "merge"
  /\ entry_index <= Len(all_signals)
  /\ LET r == MergeEntry(unique_signals, duplicates_removed,
                         all_signals[entry_index]) IN
     /\ unique_signals' = r.unique_signals
     /\ duplicates_removed' = r.duplicates_removed
  /\ entry_index' = entry_index + 1
  /\ UNCHANGED <<original_content, decoded_content, normalize, file_path, pc,
                 initial_content, decoded_content_no_headers, all_signals,
                 parsed_signals, buttons_renamed, cleaned_content,
                 comments_readded, lost_comments, difference_zero, call_no,
                 first_output,
                 driver, decoder>>

\* Lines 237-270, once the merge loop is over.
RebuildContent ==
  /\ pc = "merge"
  /\ entry_index > Len(all_signals)
  /\ LET r == Rebuild(initial_content, unique_signals) IN
     /\ cleaned_content' = r.cleaned_content
     /\ comments_readded' = r.comments_readded
  /\ pc' = "report"
  /\ UNCHANGED <<original_content, decoded_content, normalize, file_path,
                 initial_content, decoded_content_no_headers, all_signals,
                 parsed_signals, unique_signals, entry_index,
                 duplicates_removed, buttons_renamed, lost_comments,
                 difference_zero, call_no, first_output,
                 driver, decoder>>

\* compare_files, lines 294-314.
Report ==
  /\ pc = "report"
  /\ lost_comments' = LostComments(original_content, cleaned_content)
  /\ difference_zero' = DifferenceIsZero(original_content, cleaned_content)
  /\ pc' = "done"
  /\ UNCHANGED <<original_content, decoded_content, normalize, file_path,
                 initial_content, decoded_content_no_headers, all_signals,
                 parsed_signals, unique_signals, entry_index,
                 duplicates_removed, buttons_renamed, cleaned_content,
                 comments_readded, call_no, first_output,
                 driver, decoder>>

\* The rebuilt output of the first call is passed as both sources of a
\* second call, with the same normalisation setting and path.
CallAgain ==
  /\ pc = "done"
  /\ call_no = 1
  /\ call_no' = 2
  /\ first_output' = cleaned_content
  /\ original_content' = cleaned_content
  /\ decoded_content' = cleaned_content
  /\ pc' = "extract"
  /\ initial_content' = <<>>
  /\ decoded_content_no_headers' = <<>>
  /\ all_signals' = <<>>
  /\ parsed_signals' = <<>>
  /\ unique_signals' = <<>>
  /\ entry_index' = 1
  /\ duplicates_removed' = 0
  /\ buttons_renamed' = 0
  /\ cleaned_content' = <<>>
  /\ comments_readded' = 0
  /\ lost_comments' = 0
  /\ difference_zero' = FALSE
  /\ UNCHANGED <<normalize, file_path, driver, decoder>>

Next ==
  \/ ExtractHeaders
  \/ Collect
  \/ Normalize
  \/ MergeStep
  \/ RebuildContent
  \/ Report

\* The state at the call of compare_files, both files read.
InitWith(originals, decodeds, settings, paths) ==
  /\ original_content \in originals
  /\ decoded_content \in decodeds
  /\ normalize \in settings
  /\ file_path \in paths
  /\ call_no = 1
  /\ first_output = <<>>
  /\ FreshLocals
  /\ DriverIdle
  /\ DecoderIdle

Init == InitWith(OriginalInputs, DecodedInputs, BOOLEAN, {TVPath})

Spec == Init /\ [][Next]_vars

\* The same machine with the second call on the first call's output.
NextAgain == Next \/ CallAgain

SpecAgain == Init /\ [][NextAgain]_vars

\* The same machine on the inputs that exercise the rule set.
InitNamed ==
  InitWith(NamedOriginalInputs, NamedDecodedInputs, {TRUE}, Paths)

SpecNamed == InitNamed /\ [][Next]_vars

\* The same machine under several rule sets.
InitRules ==
  /\ original_content \in RuleOriginalInputs
  /\ decoded_content \in {<<>>, OffParsed}
  /\ normalize \in BOOLEAN
  /\ file_path \in {TVPath, ACPath}
  /\ call_no = 1
  /\ first_output = <<>>
  /\ FreshLocals
  /\ mapping \in RuleSets \cup {NoMapping}
  /\ original_dir = <<>>
  /\ decoded_dir = <<>>
  /\ file_limit = 0
  /\ file_index = 1
  /\ results = <<>>
  /\ skipped_files = <<>>
  /\ totals = NoTotals
  /\ visited = <<>>
  /\ io_log = <<>>
  /\ returned = FALSE
  /\ DecoderIdle

SpecRules == InitRules /\ [][Next]_vars

(***************************************************************************)
(* analyze_directories: the walk over the original tree, one file per      *)
(* step, with threshold 0                                                  *)
(***************************************************************************)

\* The variables of the single-call machine, which the driver leaves alone.
call == <<original_content, decoded_content, file_path, pc, initial_content,
          decoded_content_no_headers, all_signals, parsed_signals,
          unique_signals, entry_index, duplicates_removed, buttons_renamed,
          cleaned_content, comments_readded, lost_comments, difference_zero,
          call_no, first_output>>

\* One record of visited.
Visit(relative_path, compared, comparison) ==
  [relative_path |-> relative_path, compared |-> compared,
   comparison |-> comparison]

\* Lines 343-390: the body of the loop for one .ir file.
VisitFile ==
  /\ ~returned
  /\ file_index <= Len(original_dir)
  /\ LET relative_path == WalkPaths[file_index]
         decoded_file == decoded_dir[file_index]
     IN
     IF decoded_file.exists
     THEN \E r \in {CompareFiles(original_dir[file_index], decoded_file,
                                 normalize, mapping, relative_path)} :
          /\ decoded_dir' = [decoded_dir EXCEPT ![file_index] = r.decoded_file]
          /\ io_log' = io_log \o r.io
          /\ visited' = Append(visited, Visit(relative_path, TRUE, r.comparison))
          /\ IF r.comparison # <<>>
             THEN LET comparison == r.comparison[1]
                      significant == \/ ~comparison.difference_zero
                                     \/ comparison.lost_comments # 0
                  IN
                  /\ totals' = AddToTotals(totals, comparison, significant)
                  /\ results' = IF significant
                                THEN Append(results,
                                            [file |-> relative_path,
                                             comparison |-> comparison])
                                ELSE results
             ELSE UNCHANGED <<totals, results>>
          /\ UNCHANGED skipped_files
     ELSE /\ skipped_files' = Append(skipped_files, relative_path)
          /\ visited' = Append(visited, Visit(relative_path, FALSE, <<>>))
          /\ UNCHANGED <<decoded_dir, io_log, totals, results>>
  /\ returned' = (file_limit # 0 /\ totals'.total_files_processed >= file_limit)
  /\ file_index' = file_index + 1
  /\ UNCHANGED <<original_dir, mapping, file_limit, normalize, call, decoder>>

\* Line 399: the return after the walk.
Return ==
  /\ ~returned
  /\ file_index > Len(original_dir)
  /\ returned' = TRUE
  /\ UNCHANGED <<original_dir, decoded_dir, mapping, file_limit, file_index,
                 results, skipped_files, totals, visited, io_log, normalize,
                 call, decoder>>

NextBatch ==
  \/ VisitFile
  \/ Return

\* The state at the call of analyze_directories.
InitBatch ==
  /\ \E k \in 0..MaxFiles :
       /\ original_dir \in [1..k -> OriginalFiles]
       /\ decoded_dir \in [1..k -> DecodedFiles]
  /\ mapping \in Mappings
  /\ normalize \in BOOLEAN
  /\ file_limit \in {0, 1}
  /\ file_index = 1
  /\ results = <<>>
  /\ skipped_files = <<>>
  /\ totals = NoTotals
  /\ visited = <<>>
  /\ io_log = <<>>
  /\ returned = FALSE
  /\ original_content = <<>>
  /\ decoded_content = <<>>
  /\ file_path = <<>>
  /\ call_no = 1
  /\ first_output = <<>>
  /\ FreshLocals
  /\ DecoderIdle

SpecBatch == InitBatch /\ [][NextBatch]_vars

(***************************************************************************)
(* process_ir_files: the loop over the files, one call of send_command per *)
(* step                                                                    *)
(***************************************************************************)

\* The responses of the attempts of the call of send_command_with_retry that
\* is under way.
MadeAttempts == IF retry_returned = <<>> THEN attempts ELSE <<>>

\* One call of send_command by send_command_with_retry.
Attempt(raw, response, r) ==
  /\ raw_response' = raw
  /\ last_response' = response
  /\ attempts' = r.attempts
  /\ retry_returned' = r.returned

\* The return of decode_ir_file and the next iteration of line 244.
FileDone(decoded) ==
  \E o \in {DecodeIrFileReturn(decoded, processed_count, failed_files,
                               InputFile(ir_files[index]))} :
     /\ processed_count' = o.processed_count
     /\ failed_files' = o.failed_files
     /\ return_log' = Append(return_log, o.value)
     /\ index' = index + 1
     /\ component' = 1
     /\ decoder_pc' = "loop"

\* Lines 244-249: the next file, and the test on its index.
BeginFile ==
  /\ decoder_pc = "loop"
  /\ index <= Len(ir_files)
  /\ IF index % close_apps_frequency = 1
     THEN /\ decoder_pc' = "close"
          /\ close_log' = Append(close_log, index)
     ELSE /\ decoder_pc' = "mkdir"
          /\ UNCHANGED close_log
  /\ close_command' = 1
  /\ component' = 1
  /\ UNCHANGED <<ir_files, close_apps_frequency, index, attempts,
                 retry_returned, raw_response, last_response, processed_count,
                 failed_files, return_log, normalize, call, driver>>

\* close_running_apps, lines 145-147: one attempt of one of its three
\* commands; their responses are not looked at.
CloseApp ==
  /\ decoder_pc = "close"
  /\ \E raw \in DeviceResponses :
     \E response \in {SendCommand(raw)} :
     \E r \in {SendCommandWithRetry(MadeAttempts, response, MaxRetries)} :
        /\ Attempt(raw, response, r)
        /\ IF r.returned = <<>>
           THEN UNCHANGED <<decoder_pc, close_command>>
           ELSE IF close_command < 3
           THEN /\ close_command' = close_command + 1
                /\ UNCHANGED decoder_pc
           ELSE /\ decoder_pc' = "mkdir"
                /\ close_command' = 1
  /\ UNCHANGED <<ir_files, close_apps_frequency, index, component,
                 processed_count, failed_files, close_log, return_log,
                 normalize, call, driver>>

\* create_directory (lines 132-139) called at line 207: one attempt of the
\* mkdir of one component of the output directory.
MakeDirectory ==
  /\ decoder_pc = "mkdir"
  /\ \E raw \in DeviceResponses :
     \E response \in {SendCommand(raw)} :
     \E r \in {SendCommandWithRetry(MadeAttempts, response, MaxRetries)} :
        /\ Attempt(raw, response, r)
        /\ IF r.returned = <<>>
           THEN UNCHANGED <<decoder_pc, component, index, processed_count,
                            failed_files, return_log>>
           ELSE IF CreateDirectoryFails(r.returned[1])
           THEN FileDone(FALSE)
           ELSE IF component
                     < Len(Components(Dirname(OutputFile(ir_files[index]))))
           THEN /\ component' = component + 1
                /\ UNCHANGED <<decoder_pc, index, processed_count,
                               failed_files, return_log>>
           ELSE /\ decoder_pc' = "decode"
                /\ component' = 1
                /\ UNCHANGED <<index, processed_count, failed_files,
                               return_log>>
  /\ UNCHANGED <<ir_files, close_apps_frequency, close_command, close_log,
                 normalize, call, driver>>

\* Lines 213-219: one attempt of the decode command.
Decode ==
  /\ decoder_pc = "decode"
  /\ \E raw \in DeviceResponses :
     \E response \in {SendCommand(raw)} :
     \E r \in {SendCommandWithRetry(MadeAttempts, response, MaxRetries)} :
        /\ Attempt(raw, response, r)
        /\ IF r.returned = <<>>
           THEN UNCHANGED <<decoder_pc, component, index, processed_count,
                            failed_files, return_log>>
           ELSE IF DecodeFails(r.returned[1])
           THEN FileDone(FALSE)
           ELSE /\ decoder_pc' = "verify"
                /\ UNCHANGED <<component, index, processed_count,
                               failed_files, return_log>>
  /\ UNCHANGED <<ir_files, close_apps_frequency, close_command, close_log,
                 normalize, call, driver>>

\* Lines 222-228: verify_file_exists and the exit of decode_ir_file.
Verify ==
  /\ decoder_pc = "verify"
  /\ \E raw \in DeviceResponses :
     \E response \in {SendCommand(raw)} :
        /\ raw_response' = raw
        /\ last_response' = response
        /\ FileDone(VerifyFileExists(response))
  /\ UNCHANGED <<ir_files, close_apps_frequency, close_command, attempts,
                 retry_returned, close_log, normalize, call, driver>>

\* Lines 251-253, after the last file (and line 237 when there is none).
Finish ==
  /\ decoder_pc = "loop"
  /\ index > Len(ir_files)
  /\ decoder_pc' = "finished"
  /\ UNCHANGED <<ir_files, close_apps_frequency, index, close_command,
                 component, attempts, retry_returned, raw_response,
                 last_response, processed_count, failed_files, close_log,
                 return_log, normalize, call, driver>>

NextDecoder ==
  \/ BeginFile
  \/ CloseApp
  \/ MakeDirectory
  \/ Decode
  \/ Verify
  \/ Finish

\* The state at the call of process_ir_files on a decoder just constructed.
InitDecoder ==
  /\ \E k \in 0..MaxIrFiles : ir_files = [i \in 1..k |-> IrFile(i)]
  /\ close_apps_frequency \in 1..MaxFrequency
  /\ index = 1
  /\ decoder_pc = "loop"
  /\ close_command = 1
  /\ component = 1
  /\ attempts = <<>>
  /\ retry_returned = <<>>
  /\ raw_response = Device(FALSE, <<>>)
  /\ last_response = Response(<<>>)
  /\ processed_count = 0
  /\ failed_files = <<>>
  /\ close_log = <<>>
  /\ return_log = <<>>
  /\ original_content = <<>>
  /\ decoded_content = <<>>
  /\ normalize = FALSE
  /\ file_path = <<>>
  /\ call_no = 1
  /\ first_output = <<>>
  /\ FreshLocals
  /\ DriverIdle

SpecDecoder == InitDecoder /\ [][NextDecoder]_vars

(***************************************************************************)
(* Properties                                                              *)
(***************************************************************************)

Rebuilt == pc \in {"report", "done"}

\* block occurs in content as consecutive lines.
ContainsBlock(content, block) ==
  \E k \in 0..(Len(content) - Len(block)) :
     SubSeq(content, k + 1, k + Len(block)) = block

LinesOf(content) == {content[i] : i \in 1..Len(content)}

IsNameLine(line) == NameMatch(line).matched

LabelOf(line) == Strip(NameMatch(line).label)

\* The entries of all_signals that come from one source.
EntriesFrom(signals, source) ==
  {i \in 1..Len(signals) : signals[i].source = source}

\* The first decoded entry of all_signals under a name.
FirstDecoded(name) ==
  all_signals[CHOOSE i \in EntriesFrom(all_signals, "decoded") :
                /\ all_signals[i].name = name
                /\ \A j \in EntriesFrom(all_signals, "decoded") :
                      all_signals[j].name = name => i <= j]

\* C1 (decoded preference): once the content is rebuilt, for every name
\* that a decoded record and an original record share, the winner emitted
\* under that name is the decoded record: the output holds its lines as one
\* block, the duplicate is counted, and a line that only the original record
\* has (no winner and no header line has it) is absent from the output.
\* Original Power/raw with decoded Power/parsed yields the parsed record and
\* duplicates_removed = 1.
DecodedPreference ==
  Rebuilt =>
    /\ \A i \in EntriesFrom(all_signals, "decoded") :
       \A j \in EntriesFrom(all_signals, "original") :
         all_signals[i].name = all_signals[j].name =>
           LET name == all_signals[i].name
               at == IndexOfKey(unique_signals, name)
           IN /\ at # 0
              /\ unique_signals[at].source = "decoded"
              /\ unique_signals[at].signal = FirstDecoded(name).signal
              /\ ContainsBlock(cleaned_content, FirstDecoded(name).signal)
              /\ duplicates_removed >= 1
              /\ \A k \in 1..Len(all_signals[j].signal) :
                    LET line == all_signals[j].signal[k] IN
                    \/ line \in LinesOf(initial_content)
                    \/ \E u \in 1..Len(unique_signals) :
                          line \in LinesOf(unique_signals[u].signal)
                    \/ line \notin LinesOf(cleaned_content)
    /\ (original_content = PowerRaw /\ decoded_content = PowerParsed) =>
         /\ cleaned_content = PowerParsed
         /\ duplicates_removed = 1

DecodedPreferenceWitness ==
  /\ pc = "done"
  /\ original_content = PowerRaw
  /\ decoded_content = PowerParsed
  /\ TypeRawLine \notin LinesOf(cleaned_content)

\* C2 (name uniqueness), as claimed: the rebuilt output holds no two name
\* lines that carry the same label.
NameLinesUnique ==
  Rebuilt =>
    \A i, j \in 1..Len(cleaned_content) :
      (i < j /\ IsNameLine(cleaned_content[i]) /\ IsNameLine(cleaned_content[j]))
        => LabelOf(cleaned_content[i]) # LabelOf(cleaned_content[j])

\* C3 (idempotence), as claimed: the second call, on the first call's output
\* as both sources, removes no duplicate and returns the same lines.
Idempotent ==
  (call_no = 2 /\ pc = "done") =>
    /\ duplicates_removed = 0
    /\ cleaned_content = first_output

ExampleRebuilt ==
  <<FiletypeLine, VersionLine, HashLine, NameLine(<<"Power">>), TypeParsedLine,
    ProtocolLine, AddressLine, CommandLine>>

IsExample ==
  original_content = ExampleOriginal /\ decoded_content = ExampleDecoded

\* C4 (end-to-end example), as claimed: the rebuilt sequence of the example
\* ends in a separator line.
ExampleEndsInHash ==
  (pc = "done" /\ IsExample) =>
    /\ cleaned_content = Append(ExampleRebuilt, HashLine)
    /\ duplicates_removed = 1
    /\ lost_comments = 0

\* C4 amended: the rebuilt sequence of the example is the header, one
\* separator and the parsed Power record, with no separator after the last
\* record; duplicates_removed = 1 and lost_comments = 0.
ExampleResult ==
  (pc = "done" /\ IsExample) =>
    /\ cleaned_content = ExampleRebuilt
    /\ duplicates_removed = 1
    /\ lost_comments = 0

ExampleResultWitness ==
  pc = "done" /\ IsExample /\ call_no = 1 /\ Len(unique_signals) = 1

\* C5 (separator collapsing): the rebuilt output never holds two bare
\* separator lines in a row, and three separator lines between two records
\* of the input come out as exactly one.
SeparatorsCollapsed ==
  Rebuilt =>
    /\ \A i \in 1..(Len(cleaned_content) - 1) :
          ~(IsBareHash(cleaned_content[i]) /\ IsBareHash(cleaned_content[i + 1]))
    /\ (original_content = TripleHashOriginal /\ decoded_content = <<>>
        /\ ~normalize) =>
         cleaned_content =
           <<NameLine(<<"OFF">>), HashLine, NameLine(<<"Power">>), TypeRawLine>>

SeparatorsCollapsedWitness ==
  /\ pc = "done"
  /\ original_content = TripleHashOriginal
  /\ decoded_content = <<>>
  /\ Len(unique_signals) = 2

\* A line that is neither blank nor a comment.
IsFieldLine(line) == Strip(line) # <<>> /\ ~IsCommentLine(line)

IsLabelledNameLine(line) == IsNameLine(line) /\ LabelOf(line) # <<>>

RECURSIVE SignalLines(_, _)
SignalLines(signals, source) ==
  IF signals = <<>> THEN <<>>
  ELSE (IF Head(signals).source = source THEN Head(signals).signal ELSE <<>>)
       \o SignalLines(Tail(signals), source)

\* C6 (no line is rejected), as claimed: the field lines of the parsed
\* records of a source are, in order, exactly the lines after the extracted
\* header that are neither blank nor comments, and every record starts at
\* its one name line with a non-empty label.
NoLineRejected ==
  pc \in {"normalize", "merge", "report", "done"} =>
    /\ SignalLines(parsed_signals, "original") =
         SelectSeq(SubSeq(original_content,
                          Len(LeadingHeader(original_content)) + 1,
                          Len(original_content)),
                   IsFieldLine)
    /\ SignalLines(parsed_signals, "decoded") =
         SelectSeq(RemoveDecodedHeaders(decoded_content), IsFieldLine)
    /\ \A i \in 1..Len(parsed_signals) :
         /\ IsLabelledNameLine(parsed_signals[i].signal[1])
         /\ \A k \in 2..Len(parsed_signals[i].signal) :
               ~IsLabelledNameLine(parsed_signals[i].signal[k])

\* The lines of a header: Filetype and Version declarations.
IsDeclaration(line) ==
  \/ StartsWith(Strip(line), <<"Filetype", ":">>)
  \/ StartsWith(Strip(line), <<"Version", ":">>)

\* lines is a run of records with pairwise distinct, non-empty names that
\* are not in names, each made of a name line and field lines; a record is
\* followed by exactly one separator line, the last one only when
\* closed is set.
RECURSIVE IsRecordRun(_, _, _, _)
IsRecordRun(lines, names, in_record, closed) ==
  IF lines = <<>> THEN IF closed THEN ~in_record ELSE in_record
  ELSE LET line == Head(lines) IN
       IF IsNameLine(line)
       THEN /\ ~in_record
            /\ LabelOf(line) # <<>>
            /\ LabelOf(line) \notin names
            /\ IsRecordRun(Tail(lines), names \cup {LabelOf(line)}, TRUE, closed)
       ELSE IF line = HashLine
       THEN in_record /\ IsRecordRun(Tail(lines), names, FALSE, closed)
       ELSE /\ in_record
            /\ IsFieldLine(line)
            /\ IsRecordRun(Tail(lines), names, TRUE, closed)

\* Header declarations followed by one separator, then a run of records.
IsCanonical(content, closed) ==
  LET n == Len(LeadingHeader(content)) IN
  /\ n >= 2
  /\ \A i \in 1..(n - 1) : IsDeclaration(content[i])
  /\ content[n] = HashLine
  /\ n < Len(content)
  /\ IsRecordRun(SubSeq(content, n + 1, Len(content)), {}, FALSE, closed)

DecodedHasNoRecord ==
  SignalsOf(RemoveDecodedHeaders(decoded_content), "decoded") = <<>>

\* C7 (canonical input is a fixed point), as claimed: a canonical original
\* in which every record, the last one included, is followed by one
\* separator is rebuilt unchanged.
CanonicalClosedUnchanged ==
  (pc = "done" /\ IsCanonical(original_content, TRUE) /\ DecodedHasNoRecord) =>
    /\ cleaned_content = original_content
    /\ difference_zero
    /\ lost_comments = 0

\* C7 amended: with normalization disabled and no record from the decoded
\* source, an original made of header declarations, one separator and
\* records with pairwise distinct names separated by exactly one separator,
\* with no separator after the last record and no other comment line, is
\* rebuilt unchanged: difference_ratio == 0 and lost_comments == 0.
CanonicalFixed ==
  (pc = "done" /\ IsCanonical(original_content, FALSE) /\ DecodedHasNoRecord
   /\ ~normalize) =>
    /\ cleaned_content = original_content
    /\ difference_zero
    /\ lost_comments = 0

CanonicalFixedWitness ==
  /\ pc = "done"
  /\ original_content = CanonicalFixedPoint
  /\ decoded_content = <<RemarkLine>>
  /\ ~normalize
  /\ Len(unique_signals) = 2

\* C8 (lost comments), as claimed: lost_comments counts the comment lines of
\* the original, bare separators excluded, whose text is not in the rebuilt
\* sequence.
LostCommentsExcludeSeparators ==
  pc = "done" =>
    lost_comments =
      Cardinality({i \in 1..Len(original_content) :
                     /\ IsCommentLine(original_content[i])
                     /\ ~IsBareHash(original_content[i])
                     /\ ~InSeq(original_content[i], cleaned_content)})

IsUnder(path, category) ==
  /\ Len(path) >= 2
  /\ Lower(path[1]) = Lower(category)
  /\ path[2] \in {"/", "\\"}

\* The canonical names of the TVs table that the ACs table does not have.
TVOnlyNames ==
  { <<"Power">>, <<"Power_on">>, <<"Vol_up">>, <<"Vol_dn">>, <<"Ch_next">>,
    <<"Ch_prev">>, <<"Mute">> }

\* C9 (category-scoped normalization): after normalisation, a record named
\* OFF in a file under TVs/ is named Off; a record of a file under ACs/ is
\* renamed to nothing but Off, never to a name of the TVs table only; and a
\* record of a file under no category keeps its name.
CategoryScoped ==
  (normalize /\ pc \in {"merge", "report", "done"}) =>
    \A i \in 1..Len(all_signals) :
      LET old == parsed_signals[i].name
          new == all_signals[i].name
      IN /\ (file_path = TVPath /\ old = <<"OFF">>) => new = <<"Off">>
         /\ IsUnder(file_path, "ACs") =>
              /\ new # old => new = <<"Off">>
              /\ new \in TVOnlyNames => new = old
         /\ (\A c \in {"TVs", "ACs", "Audio_Receivers", "SoundBars", "Speakers"} :
               ~IsUnder(file_path, c)) => new = old

CategoryScopedWitness ==
  /\ pc = "done"
  /\ file_path = TVPath
  /\ \E i \in 1..Len(all_signals) :
        /\ parsed_signals[i].name = <<"OFF">>
        /\ all_signals[i].name = <<"Off">>
        /\ all_signals[i].signal[1] = NameLine(<<"Off">>)

\* C10 (duplicates_removed): every merge step adds one to
\* duplicates_removed when the entry's name is already a key of
\* unique_signals and nothing when it is not, and when the content is
\* rebuilt duplicates_removed is the number of parsed records less the
\* number of records emitted.
DuplicatesCounted ==
  [][ /\ (pc = "merge" /\ entry_index' = entry_index + 1) =>
           duplicates_removed' = duplicates_removed +
             (IF IndexOfKey(unique_signals, all_signals[entry_index].name) # 0
              THEN 1 ELSE 0)
      /\ pc' = "report" =>
           duplicates_removed' = Len(all_signals') - Len(unique_signals')
    ]_vars

DuplicatesCountedWitness ==
  /\ pc = "done"
  /\ duplicates_removed = 2
  /\ Len(unique_signals) = 2
  /\ Len(all_signals) = 4

(***************************************************************************)
(* Properties of compare_files and analyze_directories                     *)
(***************************************************************************)

\* The rebuilt content of the i-th file pair of the walk, from the texts the
\* two files have before the call.
RebuiltOf(i) ==
  CleanAndDeduplicate(SplitLines(original_dir[i].text, <<>>),
                      SplitLines(decoded_dir[i].text, <<>>),
                      normalize, mapping, WalkPaths[i]).cleaned_content

\* C11 (result of compare_files): in every call of compare_files, the result
\* is None when the original or the decoded file cannot be read and when the
\* rebuilt content cannot be written; a read failure leaves the decoded file
\* as it was; and a result other than None comes only with the decoded file
\* holding exactly the rebuilt lines joined by line breaks.
NullOnFailure ==
  [][(file_index' = file_index + 1 /\ decoded_dir[file_index].exists) =>
       LET original_file == original_dir[file_index]
           before == decoded_dir[file_index]
           after == decoded_dir'[file_index]
           comparison == visited'[Len(visited')].comparison
       IN /\ (~original_file.readable \/ ~before.readable) =>
               (comparison = <<>> /\ after = before)
          /\ before.writable # "yes" => comparison = <<>>
          /\ comparison # <<>> =>
               /\ after.text = JoinLines(RebuiltOf(file_index))
               /\ InSeq(IO("write", "decoded", WalkPaths[file_index]), io_log')
     ]_vars

\* A walk in which one call failed on an unreadable original file and
\* another returned a result after overwriting the decoded file.
NullOnFailureWitness ==
  /\ \E i \in 1..Len(visited) :
       /\ visited[i].compared
       /\ ~original_dir[i].readable
       /\ visited[i].comparison = <<>>
  /\ \E j \in 1..Len(visited) :
       /\ visited[j].compared
       /\ visited[j].comparison # <<>>
       /\ InSeq(IO("write", "decoded", WalkPaths[j]), io_log)

\* The rule set holds a pattern that re.compile rejects.
HasInvalidPattern(rules) ==
  \/ GroupsRaise(rules.groups)
  \/ \E c \in 1..Len(rules.categories) :
       \E b \in 1..Len(rules.categories[c].buttons) :
         \E i \in 1..Len(rules.categories[c].buttons[b].patterns) :
           CompileRaises(rules.categories[c].buttons[b].patterns[i])

\* C12 (corrupt rule set): with a rule set that holds an invalid pattern, no
\* file is read or written and compare_files is called on no file.
CorruptRuleSetStopsBatch ==
  HasInvalidPattern(mapping) =>
    /\ io_log = <<>>
    /\ \A i \in 1..Len(visited) : ~visited[i].compared

\* C13 (failed comparisons): of the files visited, those whose comparison
\* returned None are not counted in total_files_processed and are in
\* skipped_files, and the walk goes on after them, so that every visited
\* file is either counted or listed.
FailedComparisonSkipped ==
  /\ totals.total_files_processed =
       Cardinality({i \in 1..Len(visited) : visited[i].comparison # <<>>})
  /\ \A i \in 1..Len(visited) :
       visited[i].comparison = <<>> =>
         InSeq(visited[i].relative_path, skipped_files)
  /\ Len(visited) = totals.total_files_processed + Len(skipped_files)

(***************************************************************************)
(* Properties of the merge and of the order of the output                  *)
(***************************************************************************)

\* C14 (merge policy): when the merge loop meets a record whose name is
\* already stored, the stored winner is replaced by the record if the
\* winner's source is original and the record's source is decoded, and the
\* stored winners are left as they are in every other case.
MergePolicy ==
  [][(pc = "merge" /\ entry_index' = entry_index + 1) =>
       LET entry == all_signals[entry_index]
           at == IndexOfKey(unique_signals, entry.name)
       IN at # 0 =>
            IF unique_signals[at].source = "original" /\ entry.source = "decoded"
            THEN unique_signals' = [unique_signals EXCEPT ![at] = entry]
            ELSE unique_signals' = unique_signals
     ]_vars

\* The merge loop is over a decoded record, a second decoded record of the
\* same name and an original record of that name; the first one is stored.
MergePolicyWitness ==
  /\ pc = "merge"
  /\ entry_index > Len(all_signals)
  /\ \E i, j, k \in 1..Len(all_signals) :
       /\ i < j /\ j < k
       /\ all_signals[i].name = all_signals[j].name
       /\ all_signals[j].name = all_signals[k].name
       /\ all_signals[i].source = "decoded"
       /\ all_signals[j].source = "decoded"
       /\ all_signals[k].source = "original"
       /\ all_signals[i].signal # all_signals[j].signal
       /\ InSeq(all_signals[i], unique_signals)

\* The names of the entries in the order of their first occurrence.
RECURSIVE FirstSeen(_, _)
FirstSeen(entries, seen) ==
  IF entries = <<>> THEN seen
  ELSE FirstSeen(Tail(entries),
                 IF InSeq(Head(entries).name, seen) THEN seen
                 ELSE Append(seen, Head(entries).name))

NotComment(line) == ~IsCommentLine(line)

RECURSIVE SignalsInOrder(_)
SignalsInOrder(entries) ==
  IF entries = <<>> THEN <<>>
  ELSE Head(entries).signal \o SignalsInOrder(Tail(entries))

\* C15 (output order): the winners are stored in the order in which their
\* names were first seen in the decoded records followed by the original
\* records, no winner from the original source is stored before a winner from
\* the decoded source, and the lines of the rebuilt content that are not
\* comments are the header's followed by the field lines of each winner in
\* turn, in their parsed order.
InsertionOrder ==
  Rebuilt =>
    /\ [i \in 1..Len(unique_signals) |-> unique_signals[i].name]
         = FirstSeen(all_signals, <<>>)
    /\ \A i, j \in 1..Len(unique_signals) :
         (i < j /\ unique_signals[j].source = "decoded")
           => unique_signals[i].source = "decoded"
    /\ SelectSeq(cleaned_content, NotComment)
         = SelectSeq(initial_content, NotComment)
             \o SignalsInOrder(unique_signals)

\* The output holds a winner from the decoded source followed by a winner
\* from the original source, each with more than one field line.
InsertionOrderWitness ==
  /\ Rebuilt
  /\ Len(unique_signals) = 2
  /\ unique_signals[1].source = "decoded"
  /\ unique_signals[2].source = "original"
  /\ Len(unique_signals[1].signal) > 1
  /\ Len(unique_signals[2].signal) > 1
  /\ ContainsBlock(cleaned_content,
                   unique_signals[1].signal \o <<HashLine>>
                     \o unique_signals[2].signal)

(***************************************************************************)
(* Properties of normalize_button_names                                    *)
(***************************************************************************)

\* The call is past line 217 and normalize_button_names has been called.
Normalized ==
  normalize /\ mapping # NoMapping /\ pc \in {"merge", "report", "done"}

\* category_mappings of the call in progress.
CurrentMappings ==
  CategoryMappings(<<>>, mapping.categories, ForwardSlashes(file_path),
                   GroupPatterns(mapping.groups))

\* Some matcher of the canonical name at position k matches the name.
CanonicalMatches(cm, k, name) ==
  \E i \in 1..Len(cm[k].patterns) : PatternMatches(cm[k].patterns[i], name)

\* C16 (first match wins): after normalisation, a record whose trimmed parsed
\* name is matched by a matcher of some canonical name carries the first such
\* canonical name in the order of the merged mapping, also when that
\* canonical name is the record's own name.
FirstMatchWins ==
  Normalized =>
    LET cm == CurrentMappings IN
    \A i \in 1..Len(all_signals) :
      LET name == Strip(parsed_signals[i].name) IN
      \A k \in 1..Len(cm) :
        (/\ CanonicalMatches(cm, k, name)
         /\ \A j \in 1..(k - 1) : ~CanonicalMatches(cm, j, name))
          => all_signals[i].name = cm[k].standard_name

\* re.fullmatch(pattern, subject) is not None
ReFullMatch(r, s) == Len(s) \in Ends(r, s, 0)

\* The matcher matches the whole name: a regex fully, a literal by equality
\* without regard to case.
MatchesWhole(pattern, name) ==
  IF pattern.kind = "regex"
  THEN ReFullMatch(pattern.re, name)
  ELSE LowerSeq(name) = LowerSeq(pattern.text)

\* C17 (whole-name matching): after normalisation, a record whose name
\* differs from its trimmed parsed name carries a canonical name one of whose
\* matchers matches the whole trimmed parsed name.
WholeNameMatch ==
  Normalized =>
    LET cm == CurrentMappings IN
    \A i \in 1..Len(all_signals) :
      LET name == Strip(parsed_signals[i].name) IN
      all_signals[i].name # name =>
        \E k \in 1..Len(cm) :
          /\ cm[k].standard_name = all_signals[i].name
          /\ \E p \in 1..Len(cm[k].patterns) :
               MatchesWhole(cm[k].patterns[p], name)

\* No matcher of the mapping in force matches the name.
Unmatched(cm, name) == \A k \in 1..Len(cm) : ~CanonicalMatches(cm, k, name)

\* C18 (unmatched records): after normalisation, a record whose trimmed
\* parsed name no matcher matches has the name and the field lines it was
\* parsed with.
UnmatchedUnchanged ==
  Normalized =>
    \A i \in 1..Len(all_signals) :
      Unmatched(CurrentMappings, Strip(parsed_signals[i].name))
        => all_signals[i] = parsed_signals[i]

\* The position of the name line among the field lines of a parsed record.
NameLineAt(signal) == CHOOSE p \in 1..Len(signal) : NameMatch(signal[p]).matched

\* C19 (renamed records): after normalisation, in a record whose name
\* differs from its trimmed parsed name, the line that carried the name is
\* the name line of the new name, every other field line is as parsed, and no
\* field line is a name line with the old label.
RenamedRewritten ==
  Normalized =>
    \A i \in 1..Len(all_signals) :
      LET old == Strip(parsed_signals[i].name)
          new == all_signals[i].name
          before == parsed_signals[i].signal
          after == all_signals[i].signal
          p == NameLineAt(before)
      IN new # old =>
           /\ Len(after) = Len(before)
           /\ after[p] = NameLine(new)
           /\ \A q \in 1..Len(before) : q # p => after[q] = before[q]
           /\ \A q \in 1..Len(after) :
                NameMatch(after[q]).matched
                  => Strip(NameMatch(after[q]).label) # old

\* C20 (renamed count): once line 217 is passed, buttons_renamed is the
\* number of parsed records, of both sources, whose name is not their trimmed
\* parsed name; it is 0, with every record as parsed, when normalize is not
\* set or no mapping is given.
RenamedCount ==
  pc \in {"merge", "report", "done"} =>
    /\ buttons_renamed =
         Cardinality({i \in 1..Len(all_signals) :
                        all_signals[i].name # Strip(parsed_signals[i].name)})
    /\ (~normalize \/ mapping = NoMapping) =>
         (buttons_renamed = 0 /\ all_signals = parsed_signals)

\* A call that renamed one record of each source and left a record that a
\* matcher of its own canonical name matches with its name.
RenamedCountWitness ==
  /\ Normalized
  /\ buttons_renamed = 2
  /\ \E i, j, k \in 1..Len(all_signals) :
       /\ all_signals[i].source = "decoded"
       /\ all_signals[i].name # Strip(parsed_signals[i].name)
       /\ all_signals[j].source = "original"
       /\ all_signals[j].name # Strip(parsed_signals[j].name)
       /\ all_signals[k].name = Strip(parsed_signals[k].name)
       /\ ~Unmatched(CurrentMappings, all_signals[k].name)

\* The parsed records of one source, in the order of the scan.
ParsedFrom(source) ==
  SelectSeq(parsed_signals, LAMBDA e : e.source = source)

\* The position of the first name line among lines, Len(lines) + 1 if there
\* is none.
RECURSIVE FirstNameLine(_)
FirstNameLine(lines) ==
  IF lines = <<>> \/ IsNameLine(Head(lines)) THEN 1
  ELSE 1 + FirstNameLine(Tail(lines))

\* C21 (header lines stay in the header): once the records are parsed, the
\* first parsed record of the original and of the decoded source holds no
\* Filetype or Version line in front of its name line, so that no such line
\* from before the first record is a field line of a record.
HeaderLinesNotFields ==
  pc \in {"normalize", "merge", "report", "done"} =>
    \A source \in {"original", "decoded"} :
       ParsedFrom(source) # <<>> =>
         LET first == ParsedFrom(source)[1].signal IN
         \A k \in 1..(FirstNameLine(first) - 1) : ~IsDeclaration(first[k])

NotBlank(line) == Strip(line) # <<>>

\* C22 (blank lines): the call on the two sources without their blank lines
\* returns the rebuilt output, duplicates_removed and buttons_renamed of the
\* call on the sources themselves.
BlankLinesIgnored ==
  Rebuilt =>
    \E r \in {CleanAndDeduplicate(SelectSeq(original_content, NotBlank),
                                  SelectSeq(decoded_content, NotBlank),
                                  normalize, mapping, file_path)} :
       /\ r.cleaned_content = cleaned_content
       /\ r.duplicates_removed = duplicates_removed
       /\ r.buttons_renamed = buttons_renamed

\* a is b with some elements left out.
RECURSIVE IsSubsequence(_, _)
IsSubsequence(a, b) ==
  IF a = <<>> THEN TRUE
  ELSE IF b = <<>> THEN FALSE
  ELSE IF Head(a) = Head(b) THEN IsSubsequence(Tail(a), Tail(b))
  ELSE IsSubsequence(a, Tail(b))

RECURSIVE CommentBlocks(_)
CommentBlocks(entries) ==
  IF entries = <<>> THEN <<>>
  ELSE Head(entries).comments \o CommentBlocks(Tail(entries))

\* The lines of a source that the scan reads: the decoded source without
\* its header, the original after its first len(initial_content) lines.
ScannedLines(source) ==
  IF source = "decoded" THEN decoded_content_no_headers
  ELSE SubSeq(original_content, Len(initial_content) + 1,
              Len(original_content))

\* C23 (comment blocks): the comment blocks of the parsed records of a
\* source, one after the other, are comment lines of the source in their
\* order, each line of the source in at most one block: a comment line in
\* front of an earlier record is in no later record's block.
CommentBlocksDisjoint ==
  pc \in {"normalize", "merge", "report", "done"} =>
    \A source \in {"original", "decoded"} :
       IsSubsequence(CommentBlocks(ParsedFrom(source)),
                     SelectSeq(ScannedLines(source), IsCommentLine))

\* C24 (no dangling end): the rebuilt output is empty, or its last line is
\* neither blank nor a bare '#' after trimming.
NoDanglingEnd ==
  Rebuilt =>
    \/ cleaned_content = <<>>
    \/ /\ Strip(cleaned_content[Len(cleaned_content)]) # <<>>
       /\ Strip(cleaned_content[Len(cleaned_content)]) # HashLine

\* A rebuilt output after two winners, each emitted with a '#' after it.
NoDanglingEndWitness ==
  /\ Rebuilt
  /\ Len(unique_signals) = 2
  /\ initial_content # <<>>
  /\ cleaned_content # <<>>

\* The first entry of signals with the name of entry.
FirstNamed(signals, name) ==
  signals[CHOOSE i \in 1..Len(signals) :
            /\ signals[i].name = name
            /\ \A j \in 1..(i - 1) : signals[j].name # name]

\* C28 (no replacement): in the merge pass no original record is processed
\* before a decoded record, and the winner stored under a name is the first
\* record of that name in processing order, at every step of the pass and
\* after it.
FirstRecordWins ==
  pc \in {"merge", "report", "done"} =>
    /\ \A i, j \in 1..Len(all_signals) :
          (i < j /\ all_signals[i].source = "original")
            => all_signals[j].source = "original"
    /\ \A u \in 1..Len(unique_signals) :
          unique_signals[u] = FirstNamed(all_signals, unique_signals[u].name)

\* A finished merge pass in which an original record followed a decoded
\* record of the same name and another decoded record.
FirstRecordWinsWitness ==
  /\ Rebuilt
  /\ \E i, j, k \in 1..Len(all_signals) :
       /\ i < j /\ j < k
       /\ all_signals[i].source = "decoded"
       /\ all_signals[j].source = "decoded"
       /\ all_signals[k].source = "original"
       /\ all_signals[k].name = all_signals[i].name
       /\ all_signals[k].signal # all_signals[i].signal

\* The comment lines other than the bare '#'.
IsRemark(line) == IsCommentLine(line) /\ ~IsBareHash(line)

\* C29 (comment blocks and headers): the comment lines of the rebuilt
\* output other than bare '#' lines are those of the header, followed, only
\* when the header is empty, by those of the first winner's comment block;
\* with a non-empty header no comment block is emitted, and the only block
\* ever emitted is the first winner's.
CommentsOnlyWithoutHeader ==
  Rebuilt =>
    /\ SelectSeq(cleaned_content, IsRemark) =
         SelectSeq(initial_content, IsRemark)
           \o (IF initial_content = <<>> /\ unique_signals # <<>>
               THEN SelectSeq(unique_signals[1].comments, IsRemark)
               ELSE <<>>)
    /\ comments_readded =
         IF initial_content = <<>> /\ unique_signals # <<>>
         THEN Len(unique_signals[1].comments)
         ELSE 0

\* A rebuilt output with a header and a winner that has a comment block
\* with a remark.
CommentsOnlyWithoutHeaderWitness ==
  /\ Rebuilt
  /\ initial_content # <<>>
  /\ \E u \in 1..Len(unique_signals) :
        \E k \in 1..Len(unique_signals[u].comments) :
           IsRemark(unique_signals[u].comments[k])

\* C25 (retry): a call of send_command_with_retry makes at most max_retries
\* calls of send_command, none after a response that is not None; it returns
\* that response, and returns None only when max_retries attempts were made
\* and each returned None.
RetryBounded ==
  /\ Len(attempts) <= MaxRetries
  /\ \A i \in 1..(Len(attempts) - 1) : attempts[i].none
  /\ (attempts # <<>> /\ ~attempts[Len(attempts)].none)
       => retry_returned = <<attempts[Len(attempts)]>>
  /\ retry_returned # <<>> =>
       /\ attempts # <<>>
       /\ IF retry_returned[1].none
          THEN /\ Len(attempts) = MaxRetries
               /\ \A i \in 1..Len(attempts) : attempts[i].none
          ELSE retry_returned[1] = attempts[Len(attempts)]

\* A call that returned a response at its second attempt, and closed the
\* call before the third.
RetryBoundedWitness ==
  /\ Len(attempts) = 2
  /\ attempts[1].none
  /\ retry_returned # <<>>
  /\ ~retry_returned[1].none
  /\ retry_returned[1].text # <<>>

\* C26 (errors are failures): send_command returns None for every text read
\* from the device that contains 'Error:' or 'Failed:', whatever else the
\* text contains.
ErrorsAreFailures ==
  (Has(raw_response.text, "Error:") \/ Has(raw_response.text, "Failed:"))
    => last_response = None

\* The number of files whose iteration of the loop has begun.
FilesBegun ==
  IF decoder_pc \in {"loop", "finished"} THEN index - 1 ELSE index

\* C27 (closing frequency): close_running_apps was called before exactly
\* the files 1, N + 1, 2N + 1, ... among the files begun, N being
\* close_apps_frequency.
ClosedEveryNFiles ==
  close_log =
    SelectSeq([i \in 1..FilesBegun |-> i],
              LAMBDA i : (i - 1) % close_apps_frequency = 0)

\* C30 (one outcome per file): a step that ends a call of decode_ir_file
\* either adds one to processed_count, leaves failed_files alone and returns
\* True, or appends the input file once to failed_files, leaves
\* processed_count alone and returns False; no other step changes either,
\* and after k calls processed_count + len(failed_files) = k.
OneOutcomePerFile ==
  [][ /\ IF decoder_pc \in {"mkdir", "decode", "verify"} /\ decoder_pc' = "loop"
         THEN /\ Len(return_log') = Len(return_log) + 1
              /\ \/ /\ return_log'[Len(return_log')] = TRUE
                    /\ processed_count' = processed_count + 1
                    /\ failed_files' = failed_files
                 \/ /\ return_log'[Len(return_log')] = FALSE
                    /\ processed_count' = processed_count
                    /\ failed_files' =
                         Append(failed_files, InputFile(ir_files[index]))
         ELSE UNCHANGED <<processed_count, failed_files, return_log>>
      /\ decoder_pc' \in {"loop", "finished"} =>
           /\ Len(return_log') = index' - 1
           /\ processed_count' + Len(failed_files') = index' - 1 ]_vars

\* Three calls of decode_ir_file: one failed, one succeeded, one failed.
OneOutcomePerFileWitness ==
  /\ return_log = <<FALSE, TRUE, FALSE>>
  /\ processed_count = 1
  /\ Len(failed_files) = 2
====
